---- MODULE Spec2Model ----
(***************************************************************************)
(* Model of the ads-checker pipeline: the /check endpoint, the            *)
(* SimpleAdsService orchestrator, its CacheService, the identity          *)
(* resolvers and the two detection chains.                                *)
(*                                                                         *)
(* A Python str is a sequence of tokens (a token stands for a run of      *)
(* characters that the code never splits: a host name, a page URL, one    *)
(* blank).  None is the one-token sequence None below, which is no        *)
(* string the requests can carry.                                         *)
(***************************************************************************)
EXTENDS Integers, Sequences, FiniteSets, TLC

VARIABLES
    pc,             \* position of the request in flight
    via,            \* how the requests of this run come in: "endpoint", through POST /check,
                    \* or "direct", by calling check_ads on one shared instance
    rawDomain,      \* request.domain as sent
    rawPage,        \* request.facebook_page as sent
    domain,         \* local `domain` of check_ads / _resolve_identities
    facebook_page,  \* local `facebook_page`
    meta_page_id,   \* local `meta_page_id`
    cache_key,      \* local `cache_key`
    metaPc,         \* position of the first task handed to asyncio.gather
    googlePc,       \* position of the second task handed to asyncio.gather
    metaResult,     \* results[0]
    googleResult,   \* results[1]
    metaLog,        \* probes of the Meta chain invoked so far, with what each returned
    googleLog,      \* probes of the Google chain invoked so far, with what each returned
    calls,          \* collaborator operations this request has invoked
    response,       \* the CheckResponse check_ads returned
    source,         \* which return statement of check_ads produced it
    cache,          \* _cache of the shared SimpleAdsService instance
    reqCache,       \* _cache of the instance get_ads_service built for this request
    now,            \* the clock TTLCache reads, in seconds
    nreq,           \* requests submitted so far
    last,           \* the request answered last: its raw input, its way in, the response,
                    \* the status code (0 when it did not come through the endpoint), the time
    accessToken,    \* settings.META_ACCESS_TOKEN is non-empty
    sitePage,       \* the page the site of the requested domain links to (None: no page)
    signals,        \* the chains in which a probe of this request reported a signal
    cacheTtl,       \* the ttl the TTLCache of the service was built with
    tasks,          \* the check_ads calls that run concurrently on one instance
    lastWrite,      \* per cache key, the latest completed cache.set
    faults,         \* the collaborator calls of this request that raised or failed
    idLog,          \* the steps page-id resolution has taken for this request, in order
    probe           \* the signal probe running on its own: its name, the request it is
                    \* at, what its requests met so far, and what it returned

vars == << pc, via, rawDomain, rawPage, domain, facebook_page, meta_page_id,
           cache_key, metaPc, googlePc, metaResult, googleResult, metaLog,
           googleLog, calls, response, source, cache, reqCache,
           now, nreq, last, accessToken, sitePage, signals, faults, idLog, probe,
           cacheTtl, tasks, lastWrite >>

(***************************************************************************)
(* Bounds of the model.                                                    *)
(***************************************************************************)
MaxRequests == 2
MaxTicks == 2
TickStep == 1800

(***************************************************************************)
(* Program constants.                                                      *)
(***************************************************************************)
CACHE_TTL == 3600
OrchestratorTtl == 3600

(***************************************************************************)
(* Values.                                                                 *)
(***************************************************************************)
None == << "<None>" >>
NonStr == << "<int>" >>

Blank == " "
SiteDomain == << "x.test" >>
PageUrl == << "https://www.", "facebook.com/", "x" >>
LinkedDomain == << "brand.example" >>

\* the decimal digits, one token each
DigitChars == << "0", "1", "2", "3", "4", "5", "6", "7", "8", "9" >>

IsDigit(tok) == \E k \in 1..Len(DigitChars) : tok = DigitChars[k]

\* a string of n digits
Digits(n) == [ i \in 1..n |-> DigitChars[(i % Len(DigitChars)) + 1] ]

ValidIdLen == 11
ValidId == Digits(ValidIdLen)

RawDomains == { None, << Blank >>, SiteDomain, << Blank >> \o SiteDomain \o << Blank >> }
RawPages == { None, << >>, PageUrl }

\* what a collaborator call answers when it raises instead of returning
Raised == << "<raise>" >>

\* Python truthiness of an Optional[str] (or of the int a JSON body may hold)
Truthy(v) == v # None /\ v # << >>

RECURSIVE LStrip(_)
LStrip(s) == IF s # << >> /\ Head(s) = Blank THEN LStrip(Tail(s)) ELSE s

RECURSIVE RStrip(_)
RStrip(s) ==
    IF s # << >> /\ s[Len(s)] = Blank THEN RStrip(SubSeq(s, 1, Len(s) - 1)) ELSE s

\* str.strip()
Strip(s) == RStrip(LStrip(s))

\* the trimming left out: `request.domain if request.domain else None`
TrimInputNoStrip(v) == IF Truthy(v) THEN v ELSE None

\* `request.domain.strip() if request.domain else None`
TrimInput(v) == IF Truthy(v) THEN Strip(v) ELSE None

\* the rejection with the empty string left out: `domain is None and facebook_page is None`
InvalidInputNoneOnly(d, p) == d = None /\ p = None

\* `not domain and not facebook_page`
InvalidInput(d, p) == ~Truthy(d) /\ ~Truthy(p)

\* f"check:{domain or 'none'}:{facebook_page or 'none'}"
CacheKey(d, p) ==
    << "check", ":" >> \o (IF Truthy(d) THEN d ELSE << "none" >>)
        \o << ":" >> \o (IF Truthy(p) THEN p ELSE << "none" >>)

\* a response that reports failure whatever it is built with
CheckResponseUnsuccessful(d, p, id, hm, hg, ok, msg) ==
    [ domain |-> d, facebook_page |-> p, meta_page_id |-> id,
      has_meta_ads |-> hm, has_google_ads |-> hg, success |-> FALSE, message |-> msg ]

(***************************************************************************)
(* CheckResponse and its JSON form in the cache.                           *)
(***************************************************************************)
\* CheckResponse(...) with the field defaults of the schema
CheckResponse(d, p, id, hm, hg, ok, msg) ==
    [ domain |-> d, facebook_page |-> p, meta_page_id |-> id,
      has_meta_ads |-> hm, has_google_ads |-> hg, success |-> ok, message |-> msg ]

\* pydantic accepts None or a str for an Optional[str] field, nothing else
IsOptionalStr(v) == v # NonStr

\* whether CheckResponse(...) raises ValidationError
ValidationFails(d, p, id) == ~IsOptionalStr(d) \/ ~IsOptionalStr(p) \/ ~IsOptionalStr(id)

InvalidMessage == << "Either domain or facebook_page must be provided" >>

ErrorMessage(e) == << "Error during check: ", e >>

\* _create_success_message: the parts, joined by ". "
SuccessMessage(d, p, hm, hg) ==
    LET identity == IF Truthy(d) /\ Truthy(p) THEN << "Resolved both domain and Facebook page" >>
                    ELSE IF Truthy(d) THEN << "Domain provided" >>
                    ELSE IF Truthy(p) THEN << "Facebook page provided" >>
                    ELSE << >>
        ads_status == (IF hm THEN << "Meta ads detected" >> ELSE << >>)
                      \o (IF hg THEN << "Google ads detected" >> ELSE << >>)
        ads == IF ads_status # << >> THEN << "Active ads found: " >> \o ads_status
               ELSE << "No active ads detected" >>
    IN  identity \o ads

\* json.dumps of one field of response.model_dump()
JsonOfStr(v) == IF v = None THEN << "null" >> ELSE << "\"" >> \o v \o << "\"" >>

JsonOfBool(b) == IF b THEN << "true" >> ELSE << "false" >>

\* json.dumps(response.model_dump(), default=str): the members in field order
JsonDumps(r) ==
    << JsonOfStr(r.domain), JsonOfStr(r.facebook_page), JsonOfStr(r.meta_page_id),
       JsonOfBool(r.has_meta_ads), JsonOfBool(r.has_google_ads),
       JsonOfBool(r.success), JsonOfStr(r.message) >>

\* a reading of a JSON string that keeps its quotes
StrOfJsonKeepQuotes(j) == IF j = << "null" >> THEN None ELSE j

\* json.loads of one member
StrOfJson(j) == IF j = << "null" >> THEN None ELSE SubSeq(j, 2, Len(j) - 1)

BoolOfJson(j) == j = << "true" >>

\* CheckResponse(**json.loads(text))
JsonLoads(j) ==
    CheckResponse(StrOfJson(j[1]), StrOfJson(j[2]), StrOfJson(j[3]),
                  BoolOfJson(j[4]), BoolOfJson(j[5]), BoolOfJson(j[6]), StrOfJson(j[7]))

(***************************************************************************)
(* CacheService over a TTLCache(maxsize=1000, ttl=settings.CACHE_TTL).     *)
(***************************************************************************)
\* TTLCache: an item is there while the timer is before its expiry
Live(c, t) == { e \in c : t < e.expires }

\* CacheService.get: the stored text, parsed
CacheHit(c, k, t) == \E e \in Live(c, t) : e.key = k

CacheValue(c, k, t) == (CHOOSE e \in Live(c, t) : e.key = k).value

\* a get that lets the failure of the store out
CacheGetRaises(c, k, t, fails) ==
    IF fails THEN "raise" ELSE IF CacheHit(c, k, t) THEN "hit" ELSE "miss"

\* CacheService.get, lines 19-31: a failure of the store is caught and
\* reported as None, like a miss
CacheGetOutcome(c, k, t, fails) ==
    IF fails THEN "miss" ELSE IF CacheHit(c, k, t) THEN "hit" ELSE "miss"

\* a set that adds its entry and leaves the entry the key had in place
CacheSetKeepsOld(c, k, v, ttl, t) ==
    Live(c, t)
    \cup { [ key |-> k, value |-> JsonDumps(v), stored |-> v, expires |-> t + cacheTtl ] }

\* CacheService.set: both branches of `if ttl:` store under the ttl the
\* TTLCache was built with, whatever `ttl` is
\* (a dict is stored as json.dumps of it; `stored` remembers the dict itself)
CacheSet(c, k, v, ttl, t) ==
    { e \in Live(c, t) : e.key # k }
    \cup { [ key |-> k, value |-> JsonDumps(v), stored |-> v, expires |-> t + cacheTtl ] }

(***************************************************************************)
(* Python exceptions: the class each is derived from.                      *)
(***************************************************************************)
BaseOf(cls) ==
    CASE cls = "HTTPException" -> "Exception"
      [] cls = "AttributeError" -> "Exception"
      [] cls = "ValidationError" -> "Exception"
      [] cls = "Exception" -> "BaseException"
      [] OTHER -> "object"

\* `except Exception` catches an instance of cls
CaughtByExceptException(cls) == cls = "Exception" \/ BaseOf(cls) = "Exception"

(***************************************************************************)
(* The resolvers' public methods, and what a call of one by name does.     *)
(***************************************************************************)
DomainResolverMethods == { "domain_to_facebook", "facebook_to_domain", "close" }

FacebookResolverMethods == { "find_website_from_page", "extract_page_id" }

\* the method the orchestrator asks the DomainResolver for
FacebookLookupMethod == "find_facebook_page"

\* self.domain_resolver.<method>(domain): AttributeError when the class has no such
\* method, else what the resolution chain finds for the site
CallDomainResolver(method, found) ==
    IF method \in DomainResolverMethods
    THEN [ raised |-> "none", value |-> found ]
    ELSE [ raised |-> "AttributeError", value |-> None ]

\* the first guard without its second half: `if domain`
NeedsFacebookPageDomainOnly(d, p) == Truthy(d)

\* `if domain and not facebook_page`
NeedsFacebookPage(d, p) == Truthy(d) /\ ~Truthy(p)

\* `if facebook_page and not domain`
NeedsDomain(d, p) == Truthy(p) /\ ~Truthy(d)

(***************************************************************************)
(* Page ids and the places of a page URL that hold one.  A URL is a        *)
(* sequence of tokens: "facebook.com/", "pages/", "/", "profile.php",     *)
(* "?", "&", "id=", "pageID=", "page_id=", a name, and the digits, one     *)
(* token each.                                                             *)
(***************************************************************************)
MinIdDigits == 8
MaxIdDigits == 20
MinPathDigits == 10

\* str.isdigit()
IsDigits(v) == v # << >> /\ \A i \in 1..Len(v) : IsDigit(v[i])

\* `page_id.isdigit() and 8 <= len(page_id) <= 20`
IsPageId(v) == IsDigits(v) /\ MinIdDigits <= Len(v) /\ Len(v) <= MaxIdDigits

\* the tokens that end with a slash, and the ones that hold one
SlashEnd == { "/", "facebook.com/", "pages/" }

HoldsSlash(tok) == tok \in SlashEnd \/ tok = "https://www." \/ tok = "https://"

\* the length of the run of digits that starts at position i
RECURSIVE RunLen(_, _)
RunLen(url, i) == IF i <= Len(url) /\ IsDigit(url[i]) THEN 1 + RunLen(url, i + 1) ELSE 0

\* (\d+) at position i
DigitRun(url, i) == SubSeq(url, i, i + RunLen(url, i) - 1)

Tok(url, i) == IF i >= 1 /\ i <= Len(url) THEN url[i] ELSE "<end>"

\* re.search: the group of the leftmost match, None without a match
Leftmost(url, starts) ==
    IF starts = {} THEN None
    ELSE DigitRun(url, CHOOSE g \in starts : \A h \in starts : g <= h)

\* r'facebook\.com/pages/[^/]+/(\d+)': where the group starts
PagesIdStarts(url) ==
    { g \in 1..Len(url) :
        /\ IsDigit(url[g])
        /\ Tok(url, g - 1) = "/"
        /\ \E i \in 1..(g - 4) :
              /\ url[i] = "facebook.com/"
              /\ url[i + 1] = "pages/"
              /\ \A k \in (i + 2)..(g - 2) : ~HoldsSlash(url[k]) }

\* r'facebook\.com/profile\.php\?id=(\d+)'
ProfileIdStarts(url) ==
    { g \in 1..Len(url) :
        /\ IsDigit(url[g])
        /\ Tok(url, g - 1) = "id="
        /\ Tok(url, g - 2) = "?"
        /\ Tok(url, g - 3) = "profile.php"
        /\ Tok(url, g - 4) = "facebook.com/" }

\* r'[?&]id=(\d+)'
QueryIdStarts(url) ==
    { g \in 1..Len(url) :
        /\ IsDigit(url[g])
        /\ Tok(url, g - 1) = "id="
        /\ Tok(url, g - 2) \in { "?", "&" } }

\* r'pageID[=:](\d+)' and r'page_id[=:](\d+)'
NamedIdStarts(url, name) ==
    { g \in 1..Len(url) : IsDigit(url[g]) /\ Tok(url, g - 1) = name }

\* r'/(\d{10,})(?:/|$)'
PathIdStarts(url) ==
    { g \in 1..Len(url) :
        /\ Tok(url, g - 1) \in SlashEnd
        /\ RunLen(url, g) >= MinPathDigits
        /\ Tok(url, g + RunLen(url, g)) \in { "/", "<end>" } }

\* _extract_page_id_from_url: the patterns in order; the group of a pattern's
\* leftmost match is returned when it passes the digit check, else the next
\* pattern is tried
UrlIdCandidates(url) ==
    << Leftmost(url, PagesIdStarts(url)), Leftmost(url, ProfileIdStarts(url)),
       Leftmost(url, QueryIdStarts(url)), Leftmost(url, NamedIdStarts(url, "pageID=")),
       Leftmost(url, NamedIdStarts(url, "page_id=")), Leftmost(url, PathIdStarts(url)) >>

PageIdFromUrl(url) ==
    LET c == UrlIdCandidates(url)
        ok == { k \in 1..Len(c) : IsPageId(c[k]) }
    IN  IF ok = {} THEN None ELSE c[CHOOSE k \in ok : \A h \in ok : k <= h]

\* the first path segment of the URL: the group of r'facebook\.com/([^/?]+)'
FirstSegment(url) ==
    LET hosts == { i \in 1..Len(url) : url[i] = "facebook.com/" }
    IN  IF hosts = {} THEN << >>
        ELSE LET i == CHOOSE h \in hosts : \A k \in hosts : h <= k
                 stop == { k \in (i + 1)..(Len(url) + 1) :
                             Tok(url, k) \in { "/", "?", "<end>" } \/ HoldsSlash(Tok(url, k)) }
                 e == CHOOSE k \in stop : \A h \in stop : k <= h
             IN  IF Tok(url, i + 1) = "pages/" THEN << "pages" >>
                 ELSE SubSeq(url, i + 1, e - 1)

\* _extract_username_from_url: the first path segment, unless it is one of
\* 'pages', 'profile.php', 'groups'
UsernameOf(url) ==
    LET seg == FirstSegment(url)
    IN  IF seg = << >> \/ seg \in { << "pages" >>, << "profile.php" >>, << "groups" >> }
        THEN None ELSE seg

\* get_page_id, lines 43-52, after the first pattern: the digits of the
\* pages and the profile.php patterns, returned as they are
ClientLaterPatternId(url) ==
    IF PagesIdStarts(url) # {} THEN Leftmost(url, PagesIdStarts(url))
    ELSE Leftmost(url, ProfileIdStarts(url))

\* outcomes of the collaborators, as the code sees them
SitePages == { None, PageUrl }
WebsiteOutcomes == { None, LinkedDomain }
GraphOutcomes == { None, ValidId, NonStr }
ScrapeOutcomes == { None, ValidId }
ProbeOutcomes == { "True", "False" }
ApiOutcomes == { "True", "False", "None" }

(***************************************************************************)
(* The detection chains.                                                   *)
(***************************************************************************)
MetaProbes == << "_check_ads_direct", "_check_ads_via_scraping",
                 "_check_ads_alternative_search", "_check_ads_via_api" >>

GoogleProbes == << "_check_website_signals", "_check_google_search_ads",
                   "_check_transparency_center" >>

IndexOf(seq, x) == CHOOSE i \in 1..Len(seq) : seq[i] = x

\* a Meta chain that asks the API with or without a token
NextMetaProbeTokenless(name, token) ==
    LET i == IndexOf(MetaProbes, name)
    IN  IF i < Len(MetaProbes) THEN MetaProbes[i + 1] ELSE "return"

\* the Meta probe run after probe `name` found nothing ("return": none is left)
NextMetaProbe(name, token) ==
    LET i == IndexOf(MetaProbes, name)
    IN  IF i < 3 THEN MetaProbes[i + 1]
        ELSE IF i = 3 /\ token THEN MetaProbes[4]
        ELSE "return"

\* a Google chain that starts over when its last probe found nothing
NextGoogleProbeStartsOver(name) ==
    LET i == IndexOf(GoogleProbes, name)
    IN  IF i < Len(GoogleProbes) THEN GoogleProbes[i + 1] ELSE GoogleProbes[1]

\* the Google probe run after probe `name` found nothing
NextGoogleProbe(name) ==
    LET i == IndexOf(GoogleProbes, name)
    IN  IF i < Len(GoogleProbes) THEN GoogleProbes[i + 1] ELSE "return"

\* a chain that runs every probe whatever the earlier ones found
ChainNeverStops(outcome) == FALSE

\* a chain that takes a probe's exception for a positive answer
ChainStopsOrRaises(outcome) == outcome \in { "True", "Raise" }

\* `if has_ads_x: return True`
ChainStops(outcome) == outcome = "True"

\* the tasks created without their guards
RunsMetaChainAlways(id) == TRUE

RunsGoogleChainAlways(d) == TRUE

\* SimpleMetaClient.check_ads_presence, lines 133-135: where the chain goes
\* for a page id; .strip() on an id that is no str raises into the chain's
\* own except, which returns False
MetaChainEntry(page_id) ==
    IF page_id = NonStr \/ ~Truthy(page_id) \/ ~Truthy(Strip(page_id))
    THEN "done" ELSE MetaProbes[1]

\* SimpleGoogleClient.check_ads_presence, lines 44-47: _clean_domain hands a
\* falsy domain back as it is, and the first probe is run on the result
GoogleChainEntry(d) == GoogleProbes[1]

\* the chains are running: inside a request, or called on the clients directly
ChainsRunning == pc \in { "Gathering", "Client" }

\* `if meta_page_id:` / `if domain:` in _check_ads_parallel
RunsMetaChain(id) == Truthy(id)

RunsGoogleChain(d) == Truthy(d)

(***************************************************************************)
(* The endpoint.                                                           *)
(***************************************************************************)
\* what the body of the endpoint's try block raises
EndpointRaises(r) ==
    IF ~r.success THEN [ cls |-> "HTTPException", status |-> 400 ]
    ELSE [ cls |-> "none", status |-> 200 ]

\* the status the client sees: `except Exception` turns what it catches into a 500
EndpointStatus(r) ==
    LET e == EndpointRaises(r)
    IN  IF e.cls = "none" THEN 200
        ELSE IF CaughtByExceptException(e.cls) THEN 500
        ELSE e.status

(***************************************************************************)
(* State.                                                                  *)
(***************************************************************************)
NoResponse == CheckResponse(None, None, None, FALSE, FALSE, FALSE, None)

\* no probe is running on its own
NoProbe == [ name |-> "none", attempt |-> 0, met |-> {}, ret |-> "none" ]

NoLast ==
    [ seen |-> FALSE, via |-> "none", rawDomain |-> None, rawPage |-> None,
      response |-> NoResponse, source |-> "none", httpStatus |-> 0, at |-> 0 ]

\* the cache of the service instance the request runs on
ServiceCache == IF via = "endpoint" THEN reqCache ELSE cache

\* the operations recorded in `calls`
CacheOps == { "cache.get", "cache.set" }

ResolverOps ==
    { FacebookLookupMethod, "facebook_resolver.find_website_from_page",
      "facebook_resolver.extract_page_id", "meta_client.get_page_id" }

DetectionOps ==
    { "_check_meta_ads", "meta_client.check_ads_presence", "_check_google_ads",
      "google_client.check_ads_presence" }
    \cup { MetaProbes[i] : i \in 1..Len(MetaProbes) }
    \cup { GoogleProbes[i] : i \in 1..Len(GoogleProbes) }

\* the check_ads calls that may be in flight at once on one instance
MaxTasks == 3
Tasks == 1..MaxTasks

\* the inputs the concurrent calls are made with, and the keys they map to
ConcInputs == { << SiteDomain, None >>, << None, PageUrl >> }
ConcKeys == { CacheKey(TrimInput(i[1]), TrimInput(i[2])) : i \in ConcInputs }

\* a call that has not been made yet
IdleTask == [ pc |-> "idle", key |-> << >>, domain |-> None, facebook_page |-> None,
              value |-> NoResponse, source |-> "none" ]

\* no cache.set has completed for the key
NoWrite == [ written |-> FALSE, value |-> NoResponse, at |-> 0, by |-> 0,
             over |-> NoResponse, from |-> 0 ]

Start ==
    /\ pc = "idle"
    /\ via \in { "endpoint", "direct" }
    /\ rawDomain = None
    /\ rawPage = None
    /\ domain = None
    /\ facebook_page = None
    /\ meta_page_id = None
    /\ cache_key = << >>
    /\ metaPc = "off"
    /\ googlePc = "off"
    /\ metaResult = FALSE
    /\ googleResult = FALSE
    /\ metaLog = << >>
    /\ googleLog = << >>
    /\ calls = {}
    /\ response = NoResponse
    /\ source = "none"
    /\ cache = {}
    /\ reqCache = {}
    /\ now = 0
    /\ nreq = 0
    /\ last = NoLast
    /\ accessToken \in BOOLEAN
    /\ sitePage = None
    /\ signals = {}
    /\ faults = {}
    /\ idLog = << >>
    /\ probe = NoProbe
    /\ tasks = [ t \in Tasks |-> IdleTask ]
    /\ lastWrite = [ k \in ConcKeys |-> NoWrite ]

\* the service as built under the default configuration
Init == Start /\ cacheTtl = CACHE_TTL

\* A client sends a request: through the endpoint, whose dependency
\* get_ads_service builds a SimpleAdsService (and so a CacheService) for
\* it, or by calling check_ads on the shared instance.
Submit(d, p) ==
    /\ UNCHANGED << cacheTtl, tasks, lastWrite >>
    /\ pc = "idle"
    /\ nreq < MaxRequests
    /\ nreq' = nreq + 1
    /\ rawDomain' = d
    /\ rawPage' = p
    /\ reqCache' = {}
    /\ pc' = "Validating"
    /\ UNCHANGED << via, domain, facebook_page, meta_page_id, cache_key, metaPc, googlePc,
                    metaResult, googleResult, metaLog, googleLog, calls, response, source,
                    cache, now, last, accessToken, sitePage, signals, faults, idLog, probe >>

\* check_ads, lines 28-39: trim, reject a request with neither identifier, build the key
Validating ==
    /\ UNCHANGED << cacheTtl, tasks, lastWrite >>
    /\ pc = "Validating"
    /\ LET d == TrimInput(rawDomain)
           p == TrimInput(rawPage)
       IN  /\ domain' = d
           /\ facebook_page' = p
           /\ IF InvalidInput(d, p)
              THEN /\ response' = CheckResponse(None, None, None, FALSE, FALSE, FALSE, InvalidMessage)
                   /\ source' = "invalid"
                   /\ pc' = "Returned"
                   /\ UNCHANGED cache_key
              ELSE /\ cache_key' = CacheKey(d, p)
                   /\ pc' = "CacheCheck"
                   /\ UNCHANGED << response, source >>
    /\ UNCHANGED << via, rawDomain, rawPage, meta_page_id, metaPc, googlePc, metaResult,
                    googleResult, metaLog, googleLog, calls, cache, reqCache,
                    now, nreq, last, accessToken, sitePage, signals, faults, idLog, probe >>

\* check_ads, lines 41-44: the cache is asked, outside the try of line 46, and
\* a hit is returned as it was stored; the store may fail under the get
CacheCheck(fails) ==
    /\ UNCHANGED << cacheTtl, tasks, lastWrite >>
    /\ pc = "CacheCheck"
    /\ calls' = calls \cup { "cache.get" }
    /\ faults' = IF fails THEN faults \cup { "cache.get" } ELSE faults
    /\ LET got == CacheGetOutcome(ServiceCache, cache_key, now, fails)
       IN  IF got = "hit"
           THEN /\ response' = JsonLoads(CacheValue(ServiceCache, cache_key, now))
                /\ source' = "cache"
                /\ pc' = "Returned"
           ELSE IF got = "raise"
           THEN /\ response' = NoResponse
                /\ source' = "raised"
                /\ pc' = "Returned"
           ELSE /\ pc' = "ResolveFacebook"
                /\ UNCHANGED << response, source >>
    /\ UNCHANGED << via, rawDomain, rawPage, domain, facebook_page, meta_page_id, cache_key,
                    metaPc, googlePc, metaResult, googleResult, metaLog, googleLog,
                    cache, reqCache, now, nreq, last, accessToken, sitePage, signals,
                    idLog, probe >>

\* _resolve_identities, lines 92-99: the site links to the page `found`
ResolveFacebook(found) ==
    /\ UNCHANGED << cacheTtl, tasks, lastWrite >>
    /\ pc = "ResolveFacebook"
    /\ pc' = "ResolveDomain"
    /\ IF NeedsFacebookPage(domain, facebook_page)
       THEN LET r == CallDomainResolver(FacebookLookupMethod, found)
            IN  /\ calls' = calls \cup { FacebookLookupMethod }
                /\ faults' = IF r.raised # "none"
                             THEN faults \cup { FacebookLookupMethod } ELSE faults
                /\ sitePage' = found
                /\ facebook_page' = IF r.raised = "none" /\ Truthy(r.value)
                                    THEN r.value ELSE facebook_page
       ELSE /\ found = None
            /\ UNCHANGED << calls, faults, sitePage, facebook_page >>
    /\ UNCHANGED << via, rawDomain, rawPage, domain, meta_page_id, cache_key, metaPc,
                    googlePc, metaResult, googleResult, metaLog, googleLog, response,
                    source, cache, reqCache, now, nreq, last, accessToken, signals,
                    idLog, probe >>

\* _resolve_identities, lines 101-108: find_website_from_page answers `found`,
\* or raises into the except of line 107
ResolveDomain(found) ==
    /\ UNCHANGED << cacheTtl, tasks, lastWrite >>
    /\ pc = "ResolveDomain"
    /\ pc' = "ExtractPageId"
    /\ IF NeedsDomain(domain, facebook_page)
       THEN /\ calls' = calls \cup { "facebook_resolver.find_website_from_page" }
            /\ IF found = Raised
               THEN /\ faults' = faults \cup { "facebook_resolver.find_website_from_page" }
                    /\ UNCHANGED domain
               ELSE /\ domain' = IF Truthy(found) THEN found ELSE domain
                    /\ UNCHANGED faults
       ELSE /\ found = None
            /\ UNCHANGED << calls, domain, faults >>
    /\ UNCHANGED << via, rawDomain, rawPage, facebook_page, meta_page_id, cache_key, metaPc,
                    googlePc, metaResult, googleResult, metaLog, googleLog, response,
                    source, cache, reqCache, now, nreq, last, accessToken,
                    sitePage, signals, idLog, probe >>

\* _resolve_identities, lines 110-114, and extract_page_id, lines 58-62: the
\* id is read off the URL when the URL carries one
ExtractPageId ==
    /\ UNCHANGED << cacheTtl, tasks, lastWrite >>
    /\ pc = "ExtractPageId"
    /\ IF Truthy(facebook_page)
       THEN /\ calls' = calls \cup { "facebook_resolver.extract_page_id" }
            /\ meta_page_id' = PageIdFromUrl(facebook_page)
            /\ pc' = IF Truthy(PageIdFromUrl(facebook_page)) THEN "Detecting" ELSE "GraphLookup"
       ELSE /\ pc' = "Detecting"
            /\ UNCHANGED << calls, meta_page_id >>
    /\ UNCHANGED << via, rawDomain, rawPage, domain, facebook_page, cache_key, metaPc,
                    googlePc, metaResult, googleResult, metaLog, googleLog, response,
                    source, cache, reqCache, now, nreq, last, accessToken,
                    sitePage, signals, probe, faults, idLog >>

\* extract_page_id, lines 64-68, and _try_graph_api_lookup: asked for the
\* page's username, the directory answers `id` (None: no answer, a fault, or
\* a body without "id"), and the id is taken as it comes; a URL without a
\* username is not looked up.  When extract_page_id raises instead, the
\* except of _resolve_identities, line 122, leaves the id absent and the
\* Meta client is not asked
GraphLookup(id) ==
    /\ UNCHANGED << cacheTtl, tasks, lastWrite >>
    /\ pc = "GraphLookup"
    /\ IF id = Raised
       THEN /\ faults' = faults \cup { "facebook_resolver.extract_page_id" }
            /\ meta_page_id' = None
            /\ pc' = "Detecting"
            /\ UNCHANGED idLog
       ELSE IF UsernameOf(facebook_page) = None
       THEN /\ id = None
            /\ pc' = "ScrapePage"
            /\ UNCHANGED << meta_page_id, faults, idLog >>
       ELSE /\ idLog' = Append(idLog, "graph")
            /\ meta_page_id' = IF Truthy(id) THEN id ELSE None
            /\ pc' = IF Truthy(id) THEN "Detecting" ELSE "ScrapePage"
            /\ UNCHANGED faults
    /\ UNCHANGED calls
    /\ UNCHANGED << via, rawDomain, rawPage, domain, facebook_page, cache_key, metaPc,
                    googlePc, metaResult, googleResult, metaLog, googleLog, response,
                    source, cache, reqCache, now, nreq, last, accessToken,
                    sitePage, signals, probe >>

\* extract_page_id, lines 70-99: the page's HTML is fetched and holds the
\* digits `found` (None: no pattern matches), kept when they pass the digit
\* check; a URL without a path is not fetched (_clean_facebook_url); with no
\* id the orchestrator falls back to the Meta client (line 117)
ScrapePage(found) ==
    /\ UNCHANGED << cacheTtl, tasks, lastWrite >>
    /\ pc = "ScrapePage"
    /\ IF FirstSegment(facebook_page) = << >>
       THEN found = None /\ UNCHANGED idLog
       ELSE idLog' = Append(idLog, "html")
    /\ meta_page_id' = IF IsPageId(found) THEN found ELSE None
    /\ pc' = IF IsPageId(found) THEN "Detecting" ELSE "MetaClientPageId"
    /\ UNCHANGED calls
    /\ UNCHANGED << via, rawDomain, rawPage, domain, facebook_page, cache_key, metaPc,
                    googlePc, metaResult, googleResult, metaLog, googleLog, response,
                    source, cache, reqCache, now, nreq, last, accessToken,
                    sitePage, signals, probe, faults >>

\* _resolve_identities, line 119, and get_page_id, lines 26-48: digits in the
\* first path segment are returned as they are; for a username
\* _resolve_username_to_id, lines 62-74, asks the directory without a token,
\* which answers `id`.  When get_page_id raises instead, the id stays absent
MetaClientPageId(id) ==
    /\ UNCHANGED << cacheTtl, tasks, lastWrite >>
    /\ pc = "MetaClientPageId"
    /\ calls' = calls \cup { "meta_client.get_page_id" }
    /\ IF id = Raised
       THEN /\ faults' = faults \cup { "meta_client.get_page_id" }
            /\ pc' = "Detecting"
            /\ UNCHANGED << meta_page_id, idLog >>
       ELSE IF IsDigits(facebook_page) \/ FirstSegment(facebook_page) = << >>
               \/ IsDigits(FirstSegment(facebook_page))
       THEN /\ id = None
            /\ meta_page_id' = IF IsDigits(facebook_page) THEN facebook_page
                               ELSE IF FirstSegment(facebook_page) = << >> THEN None
                               ELSE FirstSegment(facebook_page)
            /\ pc' = "Detecting"
            /\ UNCHANGED << faults, idLog >>
       ELSE /\ idLog' = Append(idLog, "graph")
            /\ meta_page_id' = IF Truthy(id) THEN id ELSE None
            /\ pc' = IF Truthy(id) THEN "Detecting"
                     ELSE IF accessToken THEN "UsernameGraphToken" ELSE "UsernameScrape"
            /\ UNCHANGED faults
    /\ UNCHANGED << via, rawDomain, rawPage, domain, facebook_page, cache_key, metaPc,
                    googlePc, metaResult, googleResult, metaLog, googleLog, response,
                    source, cache, reqCache, now, nreq, last, accessToken,
                    sitePage, signals, probe >>

\* _resolve_username_to_id, lines 76-90: the directory, asked with the token
UsernameGraphToken(id) ==
    /\ UNCHANGED << cacheTtl, tasks, lastWrite >>
    /\ pc = "UsernameGraphToken"
    /\ idLog' = Append(idLog, "graph_token")
    /\ meta_page_id' = IF Truthy(id) THEN id ELSE None
    /\ pc' = IF Truthy(id) THEN "Detecting" ELSE "UsernameScrape"
    /\ UNCHANGED calls
    /\ UNCHANGED << via, rawDomain, rawPage, domain, facebook_page, cache_key, metaPc,
                    googlePc, metaResult, googleResult, metaLog, googleLog, response,
                    source, cache, reqCache, now, nreq, last, accessToken,
                    sitePage, signals, probe, faults >>

\* _resolve_username_to_id, lines 92-124: the public page's HTML holds the
\* digits `found`, kept when they pass the digit check; then get_page_id,
\* lines 38-52, tries its later URL patterns
UsernameScrape(found) ==
    /\ UNCHANGED << cacheTtl, tasks, lastWrite >>
    /\ pc = "UsernameScrape"
    /\ idLog' = Append(idLog, "html")
    /\ meta_page_id' = IF IsPageId(found) THEN found ELSE ClientLaterPatternId(facebook_page)
    /\ pc' = "Detecting"
    /\ UNCHANGED calls
    /\ UNCHANGED << via, rawDomain, rawPage, domain, facebook_page, cache_key, metaPc,
                    googlePc, metaResult, googleResult, metaLog, googleLog, response,
                    source, cache, reqCache, now, nreq, last, accessToken,
                    sitePage, signals, probe, faults >>

\* _check_ads_parallel, lines 134-150: the two tasks handed to asyncio.gather;
\* _resolve_identities has returned and its steps are over
Detecting ==
    /\ UNCHANGED << cacheTtl, tasks, lastWrite >>
    /\ pc = "Detecting"
    /\ pc' = "Gathering"
    /\ metaPc' = IF RunsMetaChain(meta_page_id) THEN "_check_meta_ads" ELSE "_return_false"
    /\ googlePc' = IF RunsGoogleChain(domain) THEN "_check_google_ads" ELSE "_return_false"
    /\ idLog' = << >>
    /\ UNCHANGED << via, rawDomain, rawPage, domain, facebook_page, meta_page_id, cache_key,
                    metaResult, googleResult, metaLog, googleLog, calls, response, source,
                    cache, reqCache, now, nreq, last, accessToken, sitePage, signals,
                    faults, probe >>

\* _return_false, as the first task
MetaReturnFalse ==
    /\ UNCHANGED << cacheTtl, tasks, lastWrite >>
    /\ pc = "Gathering"
    /\ metaPc = "_return_false"
    /\ metaResult' = FALSE
    /\ metaPc' = "done"
    /\ UNCHANGED << pc, via, rawDomain, rawPage, domain, facebook_page, meta_page_id,
                    cache_key, googlePc, googleResult, metaLog, googleLog, calls, response,
                    source, cache, reqCache, now, nreq, last, accessToken,
                    sitePage, signals, faults, idLog, probe >>

\* _return_false, as the second task
GoogleReturnFalse ==
    /\ UNCHANGED << cacheTtl, tasks, lastWrite >>
    /\ pc = "Gathering"
    /\ googlePc = "_return_false"
    /\ googleResult' = FALSE
    /\ googlePc' = "done"
    /\ UNCHANGED << pc, via, rawDomain, rawPage, domain, facebook_page, meta_page_id,
                    cache_key, metaPc, metaResult, metaLog, googleLog, calls, response,
                    source, cache, reqCache, now, nreq, last, accessToken,
                    sitePage, signals, faults, idLog, probe >>

\* _check_meta_ads, lines 158-171, entering check_ads_presence, lines 126-135:
\* a falsy id ends the task before the client is called, else the client's
\* chain is entered
MetaEnter ==
    /\ UNCHANGED << cacheTtl, tasks, lastWrite >>
    /\ pc = "Gathering"
    /\ metaPc = "_check_meta_ads"
    /\ IF ~Truthy(meta_page_id)
       THEN /\ calls' = calls \cup { "_check_meta_ads" }
            /\ metaResult' = FALSE
            /\ metaPc' = "done"
       ELSE /\ calls' = calls \cup { "_check_meta_ads", "meta_client.check_ads_presence" }
            /\ metaPc' = MetaChainEntry(meta_page_id)
            /\ IF MetaChainEntry(meta_page_id) = "done"
               THEN metaResult' = FALSE
               ELSE UNCHANGED metaResult
    /\ UNCHANGED << pc, via, rawDomain, rawPage, domain, facebook_page, meta_page_id,
                    cache_key, googlePc, googleResult, metaLog, googleLog, response,
                    source, cache, reqCache, now, nreq, last, accessToken,
                    sitePage, signals, faults, idLog, probe >>

\* check_ads_presence, lines 137-171: one probe of the Meta chain answers `o`;
\* a probe that raises ("Raise") ends the chain in its except, lines 173-175
MetaProbe(o) ==
    /\ UNCHANGED << cacheTtl, tasks, lastWrite >>
    /\ ChainsRunning
    /\ \E i \in 1..Len(MetaProbes) : metaPc = MetaProbes[i]
    /\ o \in (IF metaPc = MetaProbes[4] THEN ApiOutcomes ELSE ProbeOutcomes) \cup { "Raise" }
    /\ calls' = calls \cup { metaPc }
    /\ metaLog' = Append(metaLog, << metaPc, o >>)
    /\ signals' = IF o = "True" THEN signals \cup { "meta" } ELSE signals
    /\ faults' = IF o = "Raise" THEN faults \cup { metaPc } ELSE faults
    /\ IF ChainStops(o)
       THEN /\ metaResult' = TRUE
            /\ metaPc' = "done"
       ELSE IF o = "Raise" \/ NextMetaProbe(metaPc, accessToken) = "return"
       THEN /\ metaResult' = FALSE
            /\ metaPc' = "done"
       ELSE /\ metaPc' = NextMetaProbe(metaPc, accessToken)
            /\ UNCHANGED metaResult
    /\ UNCHANGED << pc, via, rawDomain, rawPage, domain, facebook_page, meta_page_id,
                    cache_key, googlePc, googleResult, googleLog, response, source,
                    cache, reqCache, now, nreq, last, accessToken, sitePage, idLog,
                    probe >>

\* _check_google_ads, lines 173-179, entering check_ads_presence, lines 42-45
GoogleEnter ==
    /\ UNCHANGED << cacheTtl, tasks, lastWrite >>
    /\ pc = "Gathering"
    /\ googlePc = "_check_google_ads"
    /\ calls' = calls \cup { "_check_google_ads", "google_client.check_ads_presence" }
    /\ googlePc' = GoogleChainEntry(domain)
    /\ UNCHANGED << pc, via, rawDomain, rawPage, domain, facebook_page, meta_page_id,
                    cache_key, metaPc, metaResult, googleResult, metaLog, googleLog,
                    response, source, cache, reqCache, now, nreq, last,
                    accessToken, sitePage, signals, faults, idLog, probe >>

\* check_ads_presence, lines 47-62: one probe of the Google chain answers `o`;
\* a probe that raises ("Raise") ends the chain in its except, lines 64-66
GoogleProbe(o) ==
    /\ UNCHANGED << cacheTtl, tasks, lastWrite >>
    /\ ChainsRunning
    /\ \E i \in 1..Len(GoogleProbes) : googlePc = GoogleProbes[i]
    /\ calls' = calls \cup { googlePc }
    /\ googleLog' = Append(googleLog, << googlePc, o >>)
    /\ signals' = IF o = "True" THEN signals \cup { "google" } ELSE signals
    /\ faults' = IF o = "Raise" THEN faults \cup { googlePc } ELSE faults
    /\ IF ChainStops(o)
       THEN /\ googleResult' = TRUE
            /\ googlePc' = "done"
       ELSE IF o = "Raise" \/ NextGoogleProbe(googlePc) = "return"
       THEN /\ googleResult' = FALSE
            /\ googlePc' = "done"
       ELSE /\ googlePc' = NextGoogleProbe(googlePc)
            /\ UNCHANGED googleResult
    /\ UNCHANGED << pc, via, rawDomain, rawPage, domain, facebook_page, meta_page_id,
                    cache_key, metaPc, metaResult, metaLog, response, source,
                    cache, reqCache, now, nreq, last, accessToken, sitePage, idLog,
                    probe >>

\* a gather that waits for its first task only
JoinedOnMeta(m, g) == m = "done"

\* a gather that returns as soon as one of its tasks is over
JoinedOnFirst(m, g) == m = "done" \/ g = "done"

\* `await asyncio.gather(*tasks, return_exceptions=True)` returns when both
\* tasks are over
Joined(m, g) == m = "done" /\ g = "done"

\* results[i] `if not isinstance(results[i], Exception) else False`: both
\* tasks absorb what they raise, so a result is always a bool
Absorbed(result) == result

\* _check_ads_parallel, lines 150-156, and check_ads, lines 57-79: the
\* response is built from both results and cached; a field pydantic
\* rejects raises into the except branch
Assembling(fails) ==
    /\ UNCHANGED << cacheTtl, tasks, lastWrite >>
    /\ pc = "Gathering"
    /\ Joined(metaPc, googlePc)
    /\ LET has_meta_ads == Absorbed(metaResult)
           has_google_ads == Absorbed(googleResult)
           built == CheckResponse(domain, facebook_page, meta_page_id, has_meta_ads,
                                  has_google_ads, TRUE,
                                  SuccessMessage(domain, facebook_page, has_meta_ads,
                                                 has_google_ads))
       IN  IF ValidationFails(domain, facebook_page, meta_page_id)
           THEN /\ response' = CheckResponse(domain, facebook_page, None, FALSE, FALSE, FALSE,
                                             ErrorMessage("ValidationError"))
                /\ source' = "error"
                /\ UNCHANGED << calls, cache, reqCache, faults >>
           ELSE /\ response' = built
                /\ source' = "computed"
                /\ calls' = calls \cup { "cache.set" }
                /\ faults' = IF fails THEN faults \cup { "cache.set" } ELSE faults
                /\ IF fails
                   THEN UNCHANGED << cache, reqCache >>
                   ELSE IF via = "endpoint"
                   THEN /\ reqCache' = CacheSet(reqCache, cache_key, built,
                                                OrchestratorTtl, now)
                        /\ UNCHANGED cache
                   ELSE /\ cache' = CacheSet(cache, cache_key, built,
                                             OrchestratorTtl, now)
                        /\ UNCHANGED reqCache
    /\ pc' = "Returned"
    /\ metaPc' = "off"
    /\ googlePc' = "off"
    /\ metaResult' = FALSE
    /\ googleResult' = FALSE
    /\ metaLog' = << >>
    /\ googleLog' = << >>
    /\ UNCHANGED << via, rawDomain, rawPage, domain, facebook_page, meta_page_id, cache_key,
                    now, nreq, last, accessToken, sitePage, signals, idLog, probe >>

\* the endpoint, lines 35-44, for a request that came through it; the
\* locals of check_ads and the service built for the request end here
Respond ==
    /\ UNCHANGED << cacheTtl, tasks, lastWrite >>
    /\ pc = "Returned"
    /\ pc' = "idle"
    /\ last' = [ seen |-> TRUE, via |-> via, rawDomain |-> rawDomain, rawPage |-> rawPage,
                 response |-> response, source |-> source,
                 httpStatus |-> IF via = "endpoint" THEN EndpointStatus(response) ELSE 0,
                 at |-> now ]
    /\ rawDomain' = None
    /\ rawPage' = None
    /\ domain' = None
    /\ facebook_page' = None
    /\ meta_page_id' = None
    /\ cache_key' = << >>
    /\ calls' = {}
    /\ response' = NoResponse
    /\ source' = "none"
    /\ sitePage' = None
    /\ signals' = {}
    /\ reqCache' = {}
    /\ faults' = {}
    /\ UNCHANGED << via, metaPc, googlePc, metaResult, googleResult, metaLog, googleLog,
                    cache, now, nreq, accessToken, idLog, probe >>

\* time passes between requests (a request lasts far less than one step of
\* the clock, and the clock is first read by the first request)
Tick ==
    /\ UNCHANGED << cacheTtl, tasks, lastWrite >>
    /\ pc = "idle"
    /\ last.seen
    /\ now < MaxTicks * TickStep
    /\ now' = now + TickStep
    /\ UNCHANGED << pc, via, rawDomain, rawPage, domain, facebook_page, meta_page_id,
                    cache_key, metaPc, googlePc, metaResult, googleResult, metaLog,
                    googleLog, calls, response, source, cache, reqCache, nreq,
                    last, accessToken, sitePage, signals, faults, idLog, probe >>

Next ==
    \/ \E d \in RawDomains, p \in RawPages : Submit(d, p)
    \/ Validating
    \/ CacheCheck(FALSE)
    \/ \E found \in SitePages : ResolveFacebook(found)
    \/ \E found \in WebsiteOutcomes : ResolveDomain(found)
    \/ ExtractPageId
    \/ \E id \in GraphOutcomes : GraphLookup(id)
    \/ \E id \in ScrapeOutcomes : ScrapePage(id)
    \/ \E id \in GraphOutcomes : MetaClientPageId(id)
    \/ \E id \in GraphOutcomes : UsernameGraphToken(id)
    \/ \E id \in ScrapeOutcomes : UsernameScrape(id)
    \/ Detecting
    \/ MetaReturnFalse
    \/ GoogleReturnFalse
    \/ MetaEnter
    \/ \E o \in ApiOutcomes : MetaProbe(o)
    \/ GoogleEnter
    \/ \E o \in ProbeOutcomes : GoogleProbe(o)
    \/ Assembling(FALSE)
    \/ Respond
    \/ Tick

Spec == Init /\ [][Next]_vars

(***************************************************************************)
(* The pipeline with failing collaborators: a resolver or a probe may      *)
(* raise, and the cache store may fail on a read or on a write.            *)
(***************************************************************************)
FaultDomains == { None, SiteDomain }
FaultPages == { None, PageUrl }
FaultIds == { None, ValidId, NonStr, Raised }

InitFault == Init /\ via = "direct"

FaultNext ==
    \/ \E d \in FaultDomains, p \in FaultPages : Submit(d, p)
    \/ Validating
    \/ \E fails \in BOOLEAN : CacheCheck(fails)
    \/ \E found \in SitePages : ResolveFacebook(found)
    \/ \E found \in WebsiteOutcomes \cup { Raised } : ResolveDomain(found)
    \/ ExtractPageId
    \/ \E id \in FaultIds : GraphLookup(id)
    \/ \E id \in ScrapeOutcomes : ScrapePage(id)
    \/ \E id \in FaultIds : MetaClientPageId(id)
    \/ \E id \in GraphOutcomes : UsernameGraphToken(id)
    \/ \E id \in ScrapeOutcomes : UsernameScrape(id)
    \/ Detecting
    \/ MetaReturnFalse
    \/ GoogleReturnFalse
    \/ MetaEnter
    \/ \E o \in ApiOutcomes \cup { "Raise" } : MetaProbe(o)
    \/ GoogleEnter
    \/ \E o \in ProbeOutcomes \cup { "Raise" } : GoogleProbe(o)
    \/ \E fails \in BOOLEAN : Assembling(fails)
    \/ Respond
    \/ Tick

FaultSpec == InitFault /\ [][FaultNext]_vars

(***************************************************************************)
(* The fingerprint of a request: check_ads up to the cache key, on inputs  *)
(* that differ in letter case and in surrounding blanks.                   *)
(***************************************************************************)
KeyDomains == { None, << >>, << Blank >>, << "x", ".test" >>, << "X", ".test" >>,
                << Blank, "x", ".test", Blank >> }
KeyPages == { None, << "https://www.", "facebook.com/", "x" >>,
              << "https://www.", "facebook.com/", "X" >>,
              << "https://www.", "facebook.com/", "x", Blank >> }

KeyNext ==
    \/ \E d \in KeyDomains, p \in KeyPages : Submit(d, p)
    \/ Validating

KeySpec == Init /\ [][KeyNext]_vars

(***************************************************************************)
(* Page-id resolution on its own: _resolve_identities for a request with a *)
(* page URL of one of the shapes below, up to the start of the detection.  *)
(***************************************************************************)
FbHost == << "https://www.", "facebook.com/" >>
ShortId == Digits(5)

IdPages ==
    { PageUrl,
      FbHost \o << "pages/", "x", "/" >> \o ValidId,
      FbHost \o << "pages/", "x", "/" >> \o Digits(7),
      FbHost \o << "pages/", "x", "/" >> \o Digits(7) \o << "?", "id=" >> \o ValidId,
      FbHost \o << "profile.php", "?", "id=" >> \o ValidId,
      FbHost \o << "profile.php", "?", "id=" >> \o Digits(7),
      FbHost \o << "x", "?", "id=" >> \o Digits(8),
      FbHost \o << "x", "?", "ref=x", "&", "id=" >> \o Digits(20),
      FbHost \o << "x", "?", "pageID=" >> \o ValidId,
      FbHost \o << "x", "?", "page_id=" >> \o ValidId,
      FbHost \o Digits(10),
      FbHost \o Digits(10) \o << "/" >>,
      FbHost \o ValidId \o << "?", "ref=x" >>,
      FbHost \o Digits(9),
      FbHost \o Digits(7),
      FbHost \o Digits(21),
      FbHost }

IdGraphOutcomes == { None, ValidId, ShortId }
IdScrapeOutcomes == { None, ValidId, ShortId }

IdNext ==
    \/ \E p \in IdPages : Submit(None, p)
    \/ Validating
    \/ CacheCheck(FALSE)
    \/ ResolveFacebook(None)
    \/ \E found \in WebsiteOutcomes : ResolveDomain(found)
    \/ ExtractPageId
    \/ \E id \in IdGraphOutcomes : GraphLookup(id)
    \/ \E id \in IdScrapeOutcomes : ScrapePage(id)
    \/ \E id \in IdGraphOutcomes : MetaClientPageId(id)
    \/ \E id \in IdGraphOutcomes : UsernameGraphToken(id)
    \/ \E id \in IdScrapeOutcomes : UsernameScrape(id)

IdSpec == Init /\ [][IdNext]_vars

(***************************************************************************)
(* The two clients called on their own: check_ads_presence of each client  *)
(* with a target that may be absent or empty.                              *)
(***************************************************************************)
ClientPageIds == { None, << >>, << Blank >>, ValidId }
ClientDomains == { None, << >>, SiteDomain }

\* SimpleMetaClient.check_ads_presence(page_id), lines 126-135
CallMetaClient(page_id) ==
    /\ UNCHANGED << cacheTtl, tasks, lastWrite >>
    /\ pc \in { "idle", "Client" }
    /\ metaPc = "off"
    /\ pc' = "Client"
    /\ meta_page_id' = page_id
    /\ calls' = calls \cup { "meta_client.check_ads_presence" }
    /\ metaPc' = MetaChainEntry(page_id)
    /\ metaResult' = FALSE
    /\ UNCHANGED << via, rawDomain, rawPage, domain, facebook_page, cache_key, googlePc,
                    googleResult, metaLog, googleLog, response, source, cache, reqCache,
                    now, nreq, last, accessToken, sitePage, signals, faults, idLog, probe >>

\* SimpleGoogleClient.check_ads_presence(domain), lines 42-45
CallGoogleClient(d) ==
    /\ UNCHANGED << cacheTtl, tasks, lastWrite >>
    /\ pc \in { "idle", "Client" }
    /\ googlePc = "off"
    /\ pc' = "Client"
    /\ domain' = d
    /\ calls' = calls \cup { "google_client.check_ads_presence" }
    /\ googlePc' = GoogleChainEntry(d)
    /\ googleResult' = FALSE
    /\ UNCHANGED << via, rawDomain, rawPage, facebook_page, meta_page_id, cache_key, metaPc,
                    metaResult, metaLog, googleLog, response, source, cache, reqCache,
                    now, nreq, last, accessToken, sitePage, signals, faults, idLog, probe >>

\* the callers have their answers
ClientReturn ==
    /\ UNCHANGED << cacheTtl, tasks, lastWrite >>
    /\ pc = "Client"
    /\ metaPc \in { "off", "done" }
    /\ googlePc \in { "off", "done" }
    /\ pc' = "idle"
    /\ metaPc' = "off"
    /\ googlePc' = "off"
    /\ metaResult' = FALSE
    /\ googleResult' = FALSE
    /\ metaLog' = << >>
    /\ googleLog' = << >>
    /\ meta_page_id' = None
    /\ domain' = None
    /\ calls' = {}
    /\ signals' = {}
    /\ faults' = {}
    /\ UNCHANGED << via, rawDomain, rawPage, facebook_page, cache_key, response, source,
                    cache, reqCache, now, nreq, last, accessToken, sitePage, idLog, probe >>

ClientNext ==
    \/ \E id \in ClientPageIds : CallMetaClient(id)
    \/ \E d \in ClientDomains : CallGoogleClient(d)
    \/ \E o \in ApiOutcomes \cup { "Raise" } : MetaProbe(o)
    \/ \E o \in ProbeOutcomes \cup { "Raise" } : GoogleProbe(o)
    \/ ClientReturn

ClientSpec == Init /\ [][ClientNext]_vars

(***************************************************************************)
(* One probe, request by request: what each request of a probe can meet    *)
(* and what the probe makes of it.                                         *)
(***************************************************************************)
ProbeNames == { MetaProbes[i] : i \in 1..Len(MetaProbes) }
                  \cup { GoogleProbes[i] : i \in 1..Len(GoogleProbes) }

\* the requests a probe makes at most: one, or one for each URL, protocol or
\* search term (three hosts times three terms in the transparency probe)
Requests(name) ==
    CASE name = "_check_ads_direct" -> 1
      [] name = "_check_ads_via_api" -> 1
      [] name = "_check_ads_via_scraping" -> 3
      [] name = "_check_ads_alternative_search" -> 2
      [] name = "_check_website_signals" -> 2
      [] name = "_check_google_search_ads" -> 3
      [] name = "_check_transparency_center" -> 9

\* the probes whose requests each sit in a try/except of their own
InnerTry(name) ==
    name \in { "_check_ads_via_scraping", "_check_ads_alternative_search",
               "_check_website_signals", "_check_google_search_ads",
               "_check_transparency_center" }

\* what one request can meet: the transport fails, the status is not 200, the
\* body cannot be parsed (with or without an ad marker in its text), the body
\* holds an ad signal, says that there are no ads, or holds nothing
RequestEvents(name) ==
    { "transport_error", "bad_status", "signal", "nothing" }
        \cup (IF name \in { "_check_ads_direct", "_check_ads_via_scraping" }
              THEN { "parse_error", "parse_error_signal" } ELSE {})
        \cup (IF name \in { "_check_ads_via_api", "_check_google_search_ads",
                            "_check_transparency_center" }
              THEN { "parse_error" } ELSE {})
        \cup (IF name \in { "_check_ads_direct", "_check_ads_alternative_search",
                            "_check_website_signals" }
              THEN { "negative" } ELSE {})

\* the events that raise an exception in the code of the request
RaisesIn(name, ev) ==
    \/ ev = "transport_error"
    \/ ev = "parse_error" /\ name \in { "_check_ads_via_api", "_check_google_search_ads",
                                        "_check_transparency_center" }

\* a probe whose handlers catch nothing
OnRaiseEscapes(name) == "Raise"

\* the handler an exception meets: the request's own except goes on to the
\* next request, the except around the probe's body ends the probe, with
\* None in the API probe and False elsewhere
OnRaise(name) ==
    IF InnerTry(name) THEN "next"
    ELSE IF name = "_check_ads_via_api" THEN "None" ELSE "False"

\* what a probe does after a request that met `ev`: return True, False or
\* None, or go on to its next request
AfterRequest(name, attempt, ev) ==
    IF RaisesIn(name, ev) THEN OnRaise(name)
    ELSE IF ev \in { "signal", "parse_error_signal" } THEN "True"
    ELSE IF ev = "bad_status"
    THEN (IF InnerTry(name) THEN "next"
          ELSE IF name = "_check_ads_via_api" THEN "None" ELSE "False")
    ELSE IF ev = "negative"
    THEN (IF name = "_check_ads_alternative_search" /\ attempt > 1 THEN "next" ELSE "False")
    ELSE IF InnerTry(name) THEN "next" ELSE "False"

\* a probe is called
ProbeCall(name) ==
    /\ UNCHANGED << cacheTtl, tasks, lastWrite >>
    /\ pc = "idle"
    /\ probe.name = "none"
    /\ probe' = [ name |-> name, attempt |-> 1, met |-> {}, ret |-> "running" ]
    /\ UNCHANGED << pc, via, rawDomain, rawPage, domain, facebook_page, meta_page_id,
                    cache_key, metaPc, googlePc, metaResult, googleResult, metaLog,
                    googleLog, calls, response, source, cache, reqCache, now, nreq,
                    last, accessToken, sitePage, signals, faults, idLog >>

\* one request of the probe meets `ev`; after the last request the probe
\* falls through to its final `return False`
ProbeRequest(ev) ==
    /\ UNCHANGED << cacheTtl, tasks, lastWrite >>
    /\ probe.ret = "running"
    /\ ev \in RequestEvents(probe.name)
    /\ LET r == AfterRequest(probe.name, probe.attempt, ev)
       IN  probe' = [ probe EXCEPT
                        !.met = @ \cup { ev },
                        !.attempt = IF r = "next" /\ @ < Requests(probe.name)
                                    THEN @ + 1 ELSE @,
                        !.ret = IF r # "next" THEN r
                                ELSE IF probe.attempt < Requests(probe.name)
                                THEN "running" ELSE "False" ]
    /\ UNCHANGED << pc, via, rawDomain, rawPage, domain, facebook_page, meta_page_id,
                    cache_key, metaPc, googlePc, metaResult, googleResult, metaLog,
                    googleLog, calls, response, source, cache, reqCache, now, nreq,
                    last, accessToken, sitePage, signals, faults, idLog >>

\* the chain has the probe's answer
ProbeReturn ==
    /\ UNCHANGED << cacheTtl, tasks, lastWrite >>
    /\ probe.name # "none"
    /\ probe.ret # "running"
    /\ probe' = NoProbe
    /\ UNCHANGED << pc, via, rawDomain, rawPage, domain, facebook_page, meta_page_id,
                    cache_key, metaPc, googlePc, metaResult, googleResult, metaLog,
                    googleLog, calls, response, source, cache, reqCache, now, nreq,
                    last, accessToken, sitePage, signals, faults, idLog >>

ProbeNext ==
    \/ \E name \in ProbeNames : ProbeCall(name)
    \/ \E ev \in { "transport_error", "bad_status", "signal", "nothing", "parse_error",
                   "parse_error_signal", "negative" } : ProbeRequest(ev)
    \/ ProbeReturn

ProbeSpec == Init /\ [][ProbeNext]_vars

(***************************************************************************)
(* FacebookResolver.find_website_from_page.  A link is a sequence of       *)
(* tokens: scheme, "www.", the host's name, its ending, a path.  A page    *)
(* is the hrefs of its anchors and the hosts of the URLs in its text.      *)
(***************************************************************************)
\* social_domains of _is_valid_website_url, all ending in .com, and the names
\* the free-text fallback of _extract_website_from_html looks for
SocialDomains == { "facebook", "instagram", "twitter", "linkedin",
                   "youtube", "tiktok", "snapchat", "pinterest" }
TextSocialNames == { "facebook", "instagram", "twitter", "linkedin" }

\* str.lower() on the tokens of a link
LowerCase(v) == [ i \in 1..Len(v) |-> IF v[i] = "Brand" THEN "brand" ELSE v[i] ]

\* _is_valid_website_url: no social domain in the lowered URL, and the URL
\* starts with http:// or https://
IsValidWebsiteUrl(url) ==
    /\ url # << >>
    /\ ~\E i \in 1..(Len(url) - 1) :
           LowerCase(url)[i] \in SocialDomains /\ url[i + 1] = ".com"
    /\ url[1] \in { "http://", "https://" }

\* _extract_website_from_html: the first anchor with a valid href, else the
\* first URL of the text whose host holds none of the four names
ExtractWebsiteFromHtml(page) ==
    LET ok == { i \in 1..Len(page.links) : IsValidWebsiteUrl(page.links[i]) }
        txt == { i \in 1..Len(page.text) :
                   ~\E k \in 1..Len(page.text[i]) :
                       LowerCase(page.text[i])[k] \in TextSocialNames }
    IN  IF ok # {} THEN page.links[CHOOSE i \in ok : \A j \in ok : i <= j]
        ELSE IF txt # {}
        THEN << "https://" >> \o page.text[CHOOSE i \in txt : \A j \in txt : i <= j]
        ELSE None

\* _clean_domain: urlparse(url).netloc, lowered, without a leading www.
CleanDomainOfUrl(url) ==
    LET rest == IF url # << >> /\ url[1] \in { "http://", "https://" } THEN Tail(url) ELSE << >>
        stop == { i \in 1..(Len(rest) + 1) : i = Len(rest) + 1 \/ rest[i] \in { "/about", "/" } }
        netloc == LowerCase(SubSeq(rest, 1, (CHOOSE i \in stop : \A j \in stop : i <= j) - 1))
    IN  IF netloc # << >> /\ netloc[1] = "www." THEN Tail(netloc) ELSE netloc

\* find_website_from_page, lines 26-49: the page is fetched, and the website
\* found in it is cleaned; None when none is found
FindWebsiteFromPage(page) ==
    LET website == ExtractWebsiteFromHtml(page)
    IN  IF Truthy(website) THEN CleanDomainOfUrl(website) ELSE None

FacebookPages ==
    { [ links |-> << << "https://", "www.", "Brand", ".example", "/about" >> >>, text |-> << >> ],
      [ links |-> << << "https://", "www.", "facebook", ".com", "/" >>,
                     << "https://", "l.", "facebook", ".com", "/about" >>,
                     << "https://", "www.", "instagram", ".com", "/" >>,
                     << "http://", "brand", ".example" >> >>, text |-> << >> ],
      [ links |-> << << "/about" >> >>, text |-> << << "shop.", "brand", ".example" >> >> ],
      [ links |-> << << "https://", "www.", "youtube", ".com", "/about" >> >>,
        text |-> << << "facebook", ".com" >>, << "youtube", ".com" >> >> ],
      [ links |-> << << "https://", "www.", "tiktok", ".com", "/" >> >>,
        text |-> << << "twitter", ".com" >>, << "pinterest", ".com" >> >> ],
      [ links |-> << >>, text |-> << << "linkedin", ".com" >>, << "instagram", ".com" >> >> ],
      [ links |-> << << "https://" >> >>, text |-> << >> ] }

WebsiteNext ==
    \/ \E p \in IdPages : Submit(None, p)
    \/ Validating
    \/ CacheCheck(FALSE)
    \/ ResolveFacebook(None)
    \/ \E page \in FacebookPages : ResolveDomain(FindWebsiteFromPage(page))

WebsiteSpec == Init /\ [][WebsiteNext]_vars

(***************************************************************************)
(* The service under a configured CACHE_TTL.  Settings reads CACHE_TTL     *)
(* from the environment, so the TTLCache may be built with a ttl below,    *)
(* at or above the 3600 seconds check_ads passes to set.                   *)
(***************************************************************************)
ConfiguredTtls == { TickStep, CACHE_TTL, CACHE_TTL + TickStep }

InitTtl == Start /\ via = "direct" /\ cacheTtl \in ConfiguredTtls

TtlSpec == InitTtl /\ [][Next]_vars

(***************************************************************************)
(* Concurrent check_ads calls on one SimpleAdsService instance.  A call    *)
(* gives up control at its awaits only: between the cache lookup and the   *)
(* cache write lie the awaits of resolution and detection, so calls for    *)
(* the same key may all miss and then write one after the other.           *)
(***************************************************************************)
\* lines 29-44: trim, build the key, look the key up
TaskLookup(t, d, p) ==
    /\ tasks[t].pc = "idle"
    /\ LET dd == TrimInput(d)
           pp == TrimInput(p)
           key == CacheKey(dd, pp)
       IN  /\ ~InvalidInput(dd, pp)
           /\ tasks' = [ tasks EXCEPT ![t] =
                 IF CacheGetOutcome(cache, key, now, FALSE) = "hit"
                 THEN [ pc |-> "returned", key |-> key, domain |-> dd, facebook_page |-> pp,
                        value |-> JsonLoads(CacheValue(cache, key, now)),
                        source |-> "cache" ]
                 ELSE [ pc |-> "computing", key |-> key, domain |-> dd,
                        facebook_page |-> pp, value |-> NoResponse, source |-> "none" ] ]
    /\ UNCHANGED << pc, via, rawDomain, rawPage, domain, facebook_page, meta_page_id,
                    cache_key, metaPc, googlePc, metaResult, googleResult, metaLog,
                    googleLog, calls, response, source, cache, reqCache, now, nreq, last,
                    accessToken, sitePage, signals, faults, idLog, probe, cacheTtl,
                    lastWrite >>

\* lines 46-66: resolution and detection are awaited, the response is built
TaskCompute(t, has_meta_ads, has_google_ads) ==
    /\ tasks[t].pc = "computing"
    /\ tasks' = [ tasks EXCEPT ![t] =
          [ @ EXCEPT !.pc = "built",
                     !.source = "computed",
                     !.value = CheckResponse(@.domain, @.facebook_page, None,
                                             has_meta_ads, has_google_ads, TRUE,
                                             SuccessMessage(tasks[t].domain,
                                                            tasks[t].facebook_page,
                                                            has_meta_ads,
                                                            has_google_ads)) ] ]
    /\ UNCHANGED << pc, via, rawDomain, rawPage, domain, facebook_page, meta_page_id,
                    cache_key, metaPc, googlePc, metaResult, googleResult, metaLog,
                    googleLog, calls, response, source, cache, reqCache, now, nreq, last,
                    accessToken, sitePage, signals, faults, idLog, probe, cacheTtl,
                    lastWrite >>

\* lines 69-71: cache.set has no await in it and runs as one step
TaskSet(t) ==
    /\ tasks[t].pc = "built"
    /\ LET key == tasks[t].key
           held == CacheHit(cache, key, now)
       IN  /\ cache' = CacheSet(cache, key, tasks[t].value, OrchestratorTtl, now)
           /\ lastWrite' = [ lastWrite EXCEPT ![key] =
                 [ written |-> TRUE, value |-> tasks[t].value, at |-> now, by |-> t,
                   over |-> IF held THEN JsonLoads(CacheValue(cache, key, now))
                            ELSE NoResponse,
                   from |-> IF held THEN lastWrite[key].by ELSE 0 ] ]
    /\ tasks' = [ tasks EXCEPT ![t].pc = "returned" ]
    /\ UNCHANGED << pc, via, rawDomain, rawPage, domain, facebook_page, meta_page_id,
                    cache_key, metaPc, googlePc, metaResult, googleResult, metaLog,
                    googleLog, calls, response, source, reqCache, now, nreq, last,
                    accessToken, sitePage, signals, faults, idLog, probe, cacheTtl >>

\* the clock moves on while the calls are in flight
TaskTick ==
    /\ \E t \in Tasks : tasks[t].pc # "idle"
    /\ now < MaxTicks * TickStep
    /\ now' = now + TickStep
    /\ UNCHANGED << pc, via, rawDomain, rawPage, domain, facebook_page, meta_page_id,
                    cache_key, metaPc, googlePc, metaResult, googleResult, metaLog,
                    googleLog, calls, response, source, cache, reqCache, nreq, last,
                    accessToken, sitePage, signals, faults, idLog, probe, cacheTtl,
                    tasks, lastWrite >>

InitConc == Init /\ via = "direct"

ConcNext ==
    \/ \E t \in Tasks, i \in ConcInputs : TaskLookup(t, i[1], i[2])
    \/ \E t \in Tasks, has_meta_ads \in BOOLEAN : TaskCompute(t, has_meta_ads, FALSE)
    \/ \E t \in Tasks : TaskSet(t)
    \/ TaskTick

ConcSpec == InitConc /\ [][ConcNext]_vars

(***************************************************************************)
(* check_ads as the event loop runs it: a call that has been entered is    *)
(* resumed whenever one of its awaits has completed, and every awaited     *)
(* collaborator call returns or raises (a network call that times out      *)
(* raises).                                                                *)
(***************************************************************************)
\* the steps of a request that has been submitted
Progress ==
    \/ Validating
    \/ \E fails \in BOOLEAN : CacheCheck(fails)
    \/ \E found \in SitePages : ResolveFacebook(found)
    \/ \E found \in WebsiteOutcomes \cup { Raised } : ResolveDomain(found)
    \/ ExtractPageId
    \/ \E id \in FaultIds : GraphLookup(id)
    \/ \E id \in ScrapeOutcomes : ScrapePage(id)
    \/ \E id \in FaultIds : MetaClientPageId(id)
    \/ \E id \in GraphOutcomes : UsernameGraphToken(id)
    \/ \E id \in ScrapeOutcomes : UsernameScrape(id)
    \/ Detecting
    \/ MetaReturnFalse
    \/ GoogleReturnFalse
    \/ MetaEnter
    \/ \E o \in ApiOutcomes \cup { "Raise" } : MetaProbe(o)
    \/ GoogleEnter
    \/ \E o \in ProbeOutcomes \cup { "Raise" } : GoogleProbe(o)
    \/ \E fails \in BOOLEAN : Assembling(fails)

LiveNext ==
    \/ \E d \in FaultDomains, p \in FaultPages : Submit(d, p)
    \/ Progress
    \/ Respond

LiveSpec == InitFault /\ [][LiveNext]_vars /\ WF_vars(Progress)

(***************************************************************************)
(* DomainResolver.domain_to_facebook, called on its own: the site's HTML   *)
(* over https and over http, then the search, then the common URL          *)
(* patterns.                                                               *)
(***************************************************************************)
DomainMethods == << "html:https", "html:http", "_search_facebook_via_google",
                    "_try_common_facebook_patterns" >>

\* a resolver that goes through all its methods whatever they find
AfterMethodTriesAll(i, found) ==
    IF found = Raised /\ i > 2 THEN "None"
    ELSE IF i < Len(DomainMethods) THEN "next"
    ELSE IF found # Raised /\ Truthy(found) THEN "found" ELSE "None"

\* lines 78-108: what follows method i answering `found`; a fetch of the
\* site that raises is skipped by the `continue` of line 91, any other raise
\* ends in the except of line 110
AfterMethod(i, found) ==
    IF found = Raised THEN (IF i <= 2 THEN "next" ELSE "None")
    ELSE IF Truthy(found) THEN "found"
    ELSE IF i < Len(DomainMethods) THEN "next"
    ELSE "None"

\* lines 69-72: the domain is cleaned; nothing is tried for an empty one
DomainToFacebookCall(d) ==
    /\ probe = NoProbe
    /\ probe' = [ name |-> "domain_to_facebook", attempt |-> 1, met |-> {},
                  ret |-> IF ~Truthy(d) \/ Strip(d) = << >> THEN "None" ELSE "running" ]
    /\ UNCHANGED << pc, via, rawDomain, rawPage, domain, facebook_page, meta_page_id,
                    cache_key, metaPc, googlePc, metaResult, googleResult, metaLog,
                    googleLog, calls, response, source, cache, reqCache, now, nreq, last,
                    accessToken, sitePage, signals, faults, idLog, cacheTtl, tasks,
                    lastWrite >>

\* lines 76-108: the method the call is at answers `found`; the helpers of
\* methods 2 and 3 catch what their requests raise and answer None
DomainToFacebookMethod(found) ==
    /\ probe.name = "domain_to_facebook"
    /\ probe.ret = "running"
    /\ found = Raised => probe.attempt <= 2
    /\ LET i == probe.attempt
           r == AfterMethod(i, found)
       IN  probe' = [ probe EXCEPT
                        !.met = @ \cup { << DomainMethods[i],
                                            IF found = Raised THEN "raised"
                                            ELSE IF Truthy(found) THEN "found"
                                            ELSE "nothing" >> },
                        !.attempt = IF r = "next" THEN i + 1 ELSE i,
                        !.ret = IF r = "next" THEN "running" ELSE r ]
    /\ UNCHANGED << pc, via, rawDomain, rawPage, domain, facebook_page, meta_page_id,
                    cache_key, metaPc, googlePc, metaResult, googleResult, metaLog,
                    googleLog, calls, response, source, cache, reqCache, now, nreq, last,
                    accessToken, sitePage, signals, faults, idLog, cacheTtl, tasks,
                    lastWrite >>

\* the three resolver chains: page-id resolution as check_ads runs it, and
\* domain_to_facebook beside it
ChainNext ==
    \/ \E p \in IdPages : Submit(None, p)
    \/ Validating
    \/ CacheCheck(FALSE)
    \/ ResolveFacebook(None)
    \/ \E found \in WebsiteOutcomes : ResolveDomain(found)
    \/ ExtractPageId
    \/ \E id \in IdGraphOutcomes : GraphLookup(id)
    \/ \E id \in IdScrapeOutcomes : ScrapePage(id)
    \/ \E id \in IdGraphOutcomes : MetaClientPageId(id)
    \/ \E id \in IdGraphOutcomes : UsernameGraphToken(id)
    \/ \E id \in IdScrapeOutcomes : UsernameScrape(id)
    \/ \E d \in { SiteDomain, << Blank >> } : DomainToFacebookCall(d)
    \/ \E found \in { None, PageUrl, Raised } : DomainToFacebookMethod(found)

ChainSpec == Init /\ [][ChainNext]_vars

(***************************************************************************)
(* SimpleGoogleClient._check_website_signals, called on its own.  A page   *)
(* is the set of the fragments its text holds.                             *)
(***************************************************************************)
\* google_ads_signals, lines 143-153: category and pattern
GoogleAdsSignals ==
    { << "Google Tag Manager", "googletag.cmd" >>,
      << "Google Tag Manager", "gtag(" >>,
      << "Google Tag Manager", "gtm.js" >>,
      << "Google Ads Scripts", "googleadservices.com" >>,
      << "Google Ads Scripts", "googlesyndication.com" >>,
      << "AdSense", "google_ad_client" >>,
      << "AdSense", "adsbygoogle" >>,
      << "AdSense", "data-ad-client" >>,
      << "DoubleClick", "doubleclick.net" >>,
      << "DoubleClick", "googleads.g.doubleclick" >>,
      << "Google Analytics Enhanced", "gtag('config', 'AW-" >>,
      << "Google Analytics Enhanced", "google_conversion_id" >>,
      << "Remarketing", "google_remarketing_only" >>,
      << "Remarketing", "google_conversion_label" >>,
      << "Shopping Ads", "merchant_id" >>,
      << "Shopping Ads", "google_business_vertical" >>,
      << "Display Network", "googlesyndication.com/pagead" >>,
      << "Display Network", "partner.googleadservices.com" >>,
      << "YouTube Ads", "youtube.com/embed" >>,
      << "YouTube Ads", "googlevideo.com" >> }

\* str.lower() on the strings that hold capitals
LowerStr(s) ==
    CASE s = "GTAG(" -> "gtag("
      [] s = "gtag('config', 'AW-" -> "gtag('config', 'aw-"
      [] s = "Google Tag Manager" -> "google tag manager"
      [] s = "Google Ads Scripts" -> "google ads scripts"
      [] s = "AdSense" -> "adsense"
      [] s = "DoubleClick" -> "doubleclick"
      [] s = "Google Analytics Enhanced" -> "google analytics enhanced"
      [] s = "Remarketing" -> "remarketing"
      [] s = "Shopping Ads" -> "shopping ads"
      [] s = "Display Network" -> "display network"
      [] s = "YouTube Ads" -> "youtube ads"
      [] OTHER -> s

\* `p in f` for the lower-case strings at hand
Contains(f, p) ==
    \/ f = p
    \/ << f, p >> \in { << "googlesyndication.com/pagead", "googlesyndication.com" >>,
                        << "partner.googleadservices.com", "googleadservices.com" >>,
                        << "gtag('config', 'aw-", "gtag(" >>,
                        << "googleads.g.doubleclick.net", "googleads.g.doubleclick" >>,
                        << "googleads.g.doubleclick.net", "doubleclick.net" >>,
                        << "google_conversion_id", "conversion" >>,
                        << "google_conversion_label", "conversion" >> }

\* lines 155-161: found_signals, one for each pattern the lower-cased text holds
FoundSignals(content) ==
    { s \in GoogleAdsSignals :
        \E f \in content : Contains(LowerStr(f), LowerStr(s[2])) }

\* what a fetch may meet: an exception, or a status and the text of a page
FetchOutcomes ==
    { [ raised |-> TRUE, status |-> 0, content |-> {} ] }
    \cup { [ raised |-> FALSE, status |-> status, content |-> content ] :
              status \in { 200, 404 },
              content \in SUBSET { "GTAG(", "google_conversion_id", "adsbygoogle",
                                   "googlesyndication.com/pagead", "welcome" } }

\* a probe that reports any hit as presence
AfterFetchAnyHit(o) ==
    IF o.raised \/ o.status # 200 \/ FoundSignals(o.content) = {} THEN "next" ELSE "True"

\* lines 135-169: what follows a fetch; a raise meets the `continue` of line
\* 169, another status or a page without a hit falls through to the next
\* protocol, a page with hits ends the probe
AfterFetch(o) ==
    IF o.raised THEN "next"
    ELSE IF o.status # 200 THEN "next"
    ELSE LET found_signals == FoundSignals(o.content)
         IN  IF found_signals = {} THEN "next"
             ELSE IF \/ Cardinality(found_signals) >= 2
                     \/ \E s \in found_signals :
                           \/ Contains(LowerStr(s[1]), "conversion")
                           \/ Contains(LowerStr(s[2]), "conversion")
             THEN "True" ELSE "False"

WebsiteSignalsCall ==
    /\ probe = NoProbe
    /\ probe' = [ name |-> "_check_website_signals:fetch", attempt |-> 1, met |-> {},
                  ret |-> "running" ]
    /\ UNCHANGED << pc, via, rawDomain, rawPage, domain, facebook_page, meta_page_id,
                    cache_key, metaPc, googlePc, metaResult, googleResult, metaLog,
                    googleLog, calls, response, source, cache, reqCache, now, nreq, last,
                    accessToken, sitePage, signals, faults, idLog, cacheTtl, tasks,
                    lastWrite >>

\* line 134: for protocol in ["https", "http"]; line 174: return False
WebsiteSignalsFetch(o) ==
    /\ probe.name = "_check_website_signals:fetch"
    /\ probe.ret = "running"
    /\ LET protocols == << "https", "http" >>
           r == AfterFetch(o)
       IN  probe' = [ probe EXCEPT
                        !.met = @ \cup { << protocols[probe.attempt], o >> },
                        !.attempt = IF r = "next" /\ @ < Len(protocols) THEN @ + 1 ELSE @,
                        !.ret = IF r # "next" THEN r
                                ELSE IF probe.attempt < Len(protocols) THEN "running"
                                ELSE "False" ]
    /\ UNCHANGED << pc, via, rawDomain, rawPage, domain, facebook_page, meta_page_id,
                    cache_key, metaPc, googlePc, metaResult, googleResult, metaLog,
                    googleLog, calls, response, source, cache, reqCache, now, nreq, last,
                    accessToken, sitePage, signals, faults, idLog, cacheTtl, tasks,
                    lastWrite >>

SignalNext ==
    \/ WebsiteSignalsCall
    \/ \E o \in FetchOutcomes : WebsiteSignalsFetch(o)

SignalSpec == Init /\ [][SignalNext]_vars

(***************************************************************************)
(* One instance asked with and without a domain, among them the domain     *)
(* that reads like the placeholder the cache key puts for an absent one.   *)
(***************************************************************************)
EchoNext ==
    \/ \E d \in { None, SiteDomain, << "none" >> }, p \in { None, PageUrl } : Submit(d, p)
    \/ Validating
    \/ CacheCheck(FALSE)
    \/ \E found \in SitePages : ResolveFacebook(found)
    \/ \E found \in WebsiteOutcomes : ResolveDomain(found)
    \/ ExtractPageId
    \/ \E id \in GraphOutcomes : GraphLookup(id)
    \/ \E id \in ScrapeOutcomes : ScrapePage(id)
    \/ \E id \in GraphOutcomes : MetaClientPageId(id)
    \/ \E id \in GraphOutcomes : UsernameGraphToken(id)
    \/ \E id \in ScrapeOutcomes : UsernameScrape(id)
    \/ Detecting
    \/ MetaReturnFalse
    \/ GoogleReturnFalse
    \/ MetaEnter
    \/ \E o \in ApiOutcomes : MetaProbe(o)
    \/ GoogleEnter
    \/ \E o \in ProbeOutcomes : GoogleProbe(o)
    \/ Assembling(FALSE)
    \/ Respond
    \/ Tick

EchoSpec == InitFault /\ [][EchoNext]_vars

(***************************************************************************)
(* Properties of the pipeline.                                             *)
(***************************************************************************)
\* an identifier of the request that is absent after trimming: None, the
\* empty string, or blanks only
AbsentInput(v) == v = None \/ \A i \in 1..Len(v) : v[i] = Blank

\* C1: while a request whose domain and facebook_page are both absent after
\* trimming is in flight, check_ads has made no call at all (no cache lookup,
\* no resolver call, no detection probe), it never leaves the validation
\* step, and the response it returns has success=false.
C1_InvalidInputNoNetwork ==
    (pc # "idle" /\ AbsentInput(rawDomain) /\ AbsentInput(rawPage)) =>
        /\ calls = {}
        /\ pc \in { "Validating", "Returned" }
        /\ (pc = "Returned") => (~response.success /\ source = "invalid")

C1_Witness ==
    /\ pc = "Returned"
    /\ rawDomain = << Blank >>
    /\ rawPage = << >>
    /\ ~response.success
    /\ calls = {}

\* C2: every response check_ads returns (computed, cached or error) with no
\* meta_page_id has has_meta_ads false, and the Meta detection task and the
\* Meta client's chain run only for a request that has a page id.
C2_NoPageIdNoMetaAds ==
    /\ (pc = "Returned" /\ ~Truthy(response.meta_page_id)) => ~response.has_meta_ads
    /\ (metaPc = "_check_meta_ads") => Truthy(meta_page_id)
    /\ (calls \cap ({ "_check_meta_ads", "meta_client.check_ads_presence" }
                    \cup { MetaProbes[i] : i \in 1..Len(MetaProbes) }) # {})
           => Truthy(meta_page_id)

C2_Witness ==
    /\ pc = "Returned"
    /\ source = "computed"
    /\ Truthy(response.facebook_page)
    /\ response.meta_page_id = None
    /\ ~response.has_meta_ads
    /\ response.has_google_ads
    /\ "_check_meta_ads" \notin calls

\* C3: every response check_ads returns with no domain (given or resolved)
\* has has_google_ads false, and the Google detection task and the Google
\* client's chain run only for a request that has a domain.
C3_NoDomainNoGoogleAds ==
    /\ (pc = "Returned" /\ ~Truthy(response.domain)) => ~response.has_google_ads
    /\ (googlePc = "_check_google_ads") => Truthy(domain)
    /\ (calls \cap ({ "_check_google_ads", "google_client.check_ads_presence" }
                    \cup { GoogleProbes[i] : i \in 1..Len(GoogleProbes) }) # {})
           => Truthy(domain)

C3_Witness ==
    /\ pc = "Returned"
    /\ source = "computed"
    /\ ~Truthy(response.domain)
    /\ Truthy(response.meta_page_id)
    /\ response.has_meta_ads
    /\ ~response.has_google_ads
    /\ "_check_google_ads" \notin calls

\* C4: when a request comes through /check with the raw input of the request
\* answered before it, also through /check and less than the cache's
\* time-to-live ago, its result is that request's result and it makes no
\* resolver or detection call.
C4_EndpointIdempotent ==
    (/\ pc = "Returned"
     /\ via = "endpoint"
     /\ last.seen
     /\ last.via = "endpoint"
     /\ last.rawDomain = rawDomain
     /\ last.rawPage = rawPage
     /\ now < last.at + CACHE_TTL) =>
        /\ response = last.response
        /\ calls \cap (ResolverOps \cup DetectionOps) = {}

\* C5: a response check_ads serves from the cache equals, field by field, the
\* result stored under the request's key in an unexpired entry of that
\* instance's cache, and the request has made the cache lookup and nothing
\* else; and no request goes on to resolution or detection while such an
\* entry is there.
C5_CacheHitReturnsStored ==
    /\ (pc = "Returned" /\ source = "cache") =>
          /\ \E e \in ServiceCache :
                e.key = cache_key /\ now < e.expires /\ response = e.stored
          /\ calls = { "cache.get" }
    /\ (pc \notin { "idle", "Validating", "CacheCheck", "Returned" }) =>
          ~(\E e \in ServiceCache : e.key = cache_key /\ now < e.expires)

C5_Witness ==
    /\ pc = "Returned"
    /\ source = "cache"
    /\ via = "direct"
    /\ response.domain = SiteDomain
    /\ response.facebook_page = PageUrl
    /\ response.meta_page_id = ValidId
    /\ response.has_google_ads
    /\ now > 0

\* C6: at /check, a request rejected for invalid input is answered with status
\* 400, and status 500 is given only to a request that ended in an internal
\* fault.
C6_InvalidInputIsClientError ==
    (last.seen /\ last.via = "endpoint") =>
        /\ (last.source = "invalid") => (last.httpStatus = 400)
        /\ (last.httpStatus = 500) => (last.source = "error")

\* the probes a chain has invoked are the first ones of its order, none of
\* them but the last has reported a signal, and a chain whose last probe
\* reported one has returned true
ShortCircuits(log, probes, at, result) ==
    /\ \A i \in 1..Len(log) : log[i][1] = probes[i]
    /\ \A i \in 1..(Len(log) - 1) : log[i][2] # "True"
    /\ (log # << >> /\ log[Len(log)][2] = "True") => (at = "done" /\ result)

\* C7: in the Meta chain and in the Google chain, once a probe has reported a
\* signal the chain has returned true and no later probe of it is invoked.
C7_ChainsShortCircuit ==
    /\ ShortCircuits(metaLog, MetaProbes, metaPc, metaResult)
    /\ ShortCircuits(googleLog, GoogleProbes, googlePc, googleResult)

C7_Witness ==
    /\ metaLog = << << MetaProbes[1], "True" >> >>
    /\ metaPc = "done"
    /\ metaResult
    /\ googleLog = << << GoogleProbes[1], "False" >>, << GoogleProbes[2], "True" >> >>
    /\ googlePc = "done"
    /\ googleResult

\* C8: a request that supplies both a domain and a facebook_page never has the
\* domain-to-page or the page-to-domain resolver invoked; it keeps the two
\* identifiers it came with, has page-id resolution run on the page before
\* detection starts, and has detection run before a computed answer.
C8_BothGivenSkipsResolvers ==
    (pc # "idle" /\ ~AbsentInput(rawDomain) /\ ~AbsentInput(rawPage)) =>
        /\ FacebookLookupMethod \notin calls
        /\ "domain_to_facebook" \notin calls
        /\ "facebook_resolver.find_website_from_page" \notin calls
        /\ (pc # "Validating") =>
              (domain = Strip(rawDomain) /\ facebook_page = Strip(rawPage))
        /\ (pc \in { "Detecting", "Gathering" }) =>
              ("facebook_resolver.extract_page_id" \in calls)
        /\ (pc = "Returned" /\ source # "cache") =>
              ({ "facebook_resolver.extract_page_id", "_check_google_ads" } \subseteq calls)

C8_Witness ==
    /\ pc = "Returned"
    /\ source = "computed"
    /\ rawDomain = SiteDomain
    /\ rawPage = PageUrl
    /\ response.meta_page_id = ValidId
    /\ response.has_meta_ads

\* C9: a computed response to a request with a domain and no facebook_page,
\* for a site that links to a page, carries that page as facebook_page, and
\* page-id resolution has been run on it.
C9_DomainOnlyResolvesPage ==
    (/\ pc = "Returned"
     /\ source = "computed"
     /\ ~AbsentInput(rawDomain)
     /\ AbsentInput(rawPage)
     /\ sitePage # None) =>
        /\ response.facebook_page = sitePage
        /\ "facebook_resolver.extract_page_id" \in calls

\* C10, as stated: a response computed for a domain-only request for which no
\* page was found and no probe reported a signal has success=true, the
\* domain of the request as it was sent, no facebook_page, no meta_page_id
\* and both flags false.
C10_DomainEqualsRawInput ==
    (/\ pc = "Returned"
     /\ source # "cache"
     /\ ~AbsentInput(rawDomain)
     /\ AbsentInput(rawPage)
     /\ sitePage = None
     /\ signals = {}) =>
        /\ response.success
        /\ response.domain = rawDomain
        /\ response.facebook_page = None
        /\ response.meta_page_id = None
        /\ ~response.has_meta_ads
        /\ ~response.has_google_ads

\* C10, amended: such a response has success=true, the trimmed domain of the
\* request, no facebook_page, no meta_page_id and both flags false; and a
\* response with success=false comes from the rejection of the input or
\* from a fault (a page id the response cannot hold), never from finding
\* nothing.
C10_NothingFoundIsSuccess ==
    /\ (/\ pc = "Returned"
        /\ source # "cache"
        /\ ~AbsentInput(rawDomain)
        /\ AbsentInput(rawPage)
        /\ sitePage = None
        /\ signals = {}) =>
           /\ response.success
           /\ response.domain = Strip(rawDomain)
           /\ response.facebook_page = None
           /\ response.meta_page_id = None
           /\ ~response.has_meta_ads
           /\ ~response.has_google_ads
    /\ (pc = "Returned" /\ ~response.success) =>
           (source = "invalid" \/ (source = "error" /\ meta_page_id = NonStr))

C10_Witness ==
    /\ pc = "Returned"
    /\ source = "computed"
    /\ rawDomain = << Blank >> \o SiteDomain \o << Blank >>
    /\ rawPage = None
    /\ sitePage = None
    /\ signals = {}
    /\ response.success
    /\ response.domain = SiteDomain
    /\ "_check_google_search_ads" \in calls

\* the probes of the two chains
MetaProbeCalls == { MetaProbes[i] : i \in 1..Len(MetaProbes) }
GoogleProbeCalls == { GoogleProbes[i] : i \in 1..Len(GoogleProbes) }

\* C11: a resolver or detection call that raises does not abort the request:
\* the response of a request in which such a call raised (and whose fields are
\* all strings or absent) is a success, the field of a resolution that raised
\* is absent, the flag of a chain in which a probe raised is false, the other
\* chain still ran on its identifier, and the result was handed to the cache
C11_RaiseDoesNotAbort ==
    (/\ pc = "Returned"
     /\ faults \cap (ResolverOps \cup MetaProbeCalls \cup GoogleProbeCalls) # {}
     /\ ~ValidationFails(domain, facebook_page, meta_page_id))
    => /\ source = "computed"
       /\ response.success
       /\ FacebookLookupMethod \in faults => response.facebook_page = None
       /\ "facebook_resolver.find_website_from_page" \in faults => response.domain = None
       /\ faults \cap { "facebook_resolver.extract_page_id", "meta_client.get_page_id" } # {}
             => response.meta_page_id = None
       /\ faults \cap MetaProbeCalls # {} => ~response.has_meta_ads
       /\ faults \cap GoogleProbeCalls # {} => ~response.has_google_ads
       /\ Truthy(response.domain) => "google_client.check_ads_presence" \in calls
       /\ Truthy(response.meta_page_id) => "meta_client.check_ads_presence" \in calls
       /\ "cache.set" \in calls

\* a Meta probe raised after the page id was resolved, and the Google chain
\* still found ads
C11_Witness ==
    /\ pc = "Returned"
    /\ source = "computed"
    /\ "_check_ads_via_scraping" \in faults
    /\ response.success
    /\ response.meta_page_id = ValidId
    /\ ~response.has_meta_ads
    /\ response.has_google_ads

\* str.lower() on the letters the inputs are written with
Lower(v) == [ i \in 1..Len(v) |-> IF v[i] = "X" THEN "x" ELSE v[i] ]

\* the normal form of one raw identifier: trimmed and lower-cased, 'none' when absent
NormalInput(v) == IF AbsentInput(v) THEN << "none" >> ELSE Lower(Strip(v))

\* C12: two raw inputs that differ only in letter case or in surrounding
\* whitespace of domain and facebook_page get the same cache key: the key of
\* the request in hand is the key of every input with the same normal form
C12_KeyIgnoresCaseAndBlanks ==
    pc = "CacheCheck"
    => \A d \in KeyDomains, p \in KeyPages :
          (/\ NormalInput(d) = NormalInput(rawDomain)
           /\ NormalInput(p) = NormalInput(rawPage))
          => CacheKey(TrimInput(d), TrimInput(p)) = cache_key

\* C13: a page id that page-id resolution produced, by whichever strategy,
\* is a string of 8 to 20 digits
C13_PageIdIsValidated ==
    meta_page_id # None => IsPageId(meta_page_id)

\* C14: a client's chain called with an absent or empty target answers false
\* and runs no probe: while such a call is in hand the chain is over, its
\* answer is false, and no probe of that chain was run
C14_EmptyTargetRunsNoProbe ==
    pc = "Client"
    => /\ (metaPc # "off" /\ AbsentInput(meta_page_id))
             => metaPc = "done" /\ ~metaResult /\ metaLog = << >>
       /\ (googlePc # "off" /\ AbsentInput(domain))
             => googlePc = "done" /\ ~googleResult /\ googleLog = << >>

\* C15: with an access token configured, the Meta chain runs the Ad Library
\* API probe before any heuristic probe: every heuristic probe in the chain's
\* log has the API probe somewhere before it
C15_ApiProbeFirst ==
    accessToken
    => \A i \in 1..Len(metaLog) :
          metaLog[i][1] # "_check_ads_via_api"
          => \E j \in 1..(i - 1) : metaLog[j][1] = "_check_ads_via_api"

\* C16: page-id resolution fetches the page's HTML only after the
\* authenticated directory lookup was attempted, when a credential is
\* configured: every HTML fetch in the log of network steps has the lookup
\* with the token somewhere before it
C16_HtmlAfterAuthenticatedLookup ==
    accessToken
    => \A i \in 1..Len(idLog) :
          idLog[i] = "html" => \E j \in 1..(i - 1) : idLog[j] = "graph_token"

\* the positions of a URL where a page id is looked for: after pages/<name>/,
\* after an id= query parameter (profile.php?id= included), and a path
\* segment of ten digits or more
RecognisedPosition(url, k) ==
    /\ IsDigit(url[k])
    /\ ~IsDigit(Tok(url, k - 1))
    /\ \/ Tok(url, k - 1) = "/" /\ Tok(url, k - 3) = "pages/" /\ Tok(url, k - 4) = "facebook.com/"
       \/ Tok(url, k - 1) = "id=" /\ Tok(url, k - 2) \in { "?", "&" }
       \/ /\ Tok(url, k - 1) \in { "facebook.com/", "/" }
          /\ RunLen(url, k) >= MinPathDigits
          /\ Tok(url, k + RunLen(url, k)) \in { "/", "?", "<end>" }

\* the steps of _resolve_identities that follow the parsing of the URL
AfterUrlParsing ==
    { "GraphLookup", "ScrapePage", "MetaClientPageId", "UsernameGraphToken",
      "UsernameScrape", "Detecting" }

\* C17: when the page URL holds an id of 8 to 20 digits in a recognised
\* position, extract_page_id returns that id and page-id resolution is over
\* without a network request
C17_UrlIdNeedsNoNetwork ==
    pc \in AfterUrlParsing
    => \A k \in 1..Len(facebook_page) :
          (RecognisedPosition(facebook_page, k) /\ IsPageId(DigitRun(facebook_page, k)))
          => /\ pc = "Detecting"
             /\ meta_page_id = DigitRun(facebook_page, k)
             /\ idLog = << >>

FailureEvents == { "transport_error", "bad_status", "parse_error", "parse_error_signal" }

\* C18 as stated: no probe lets an exception escape, and a probe in which a
\* request met a transport failure, a status other than 200 or a parse
\* failure answers false or none
C18_AnyFailureIsNonPositive ==
    /\ probe.ret # "Raise"
    /\ (probe.ret \notin { "none", "running" } /\ probe.met \cap FailureEvents # {})
          => probe.ret \in { "False", "None" }

\* C18, amended: no probe lets an exception escape, and a probe none of
\* whose requests found an ad signal answers false or none, whatever failures
\* its requests met
C18_FailuresAreAbsorbed ==
    /\ probe.ret # "Raise"
    /\ (probe.ret \notin { "none", "running" }
        /\ probe.met \cap { "signal", "parse_error_signal" } = {})
          => probe.ret \in { "False", "None" }

\* the scraping probe has made its three requests: the transport failed,
\* a status was not 200, a body could not be parsed, and it answers false
C18_Witness ==
    /\ probe.name = "_check_ads_via_scraping"
    /\ probe.attempt = Requests("_check_ads_via_scraping")
    /\ probe.met = { "transport_error", "bad_status", "parse_error" }
    /\ probe.ret = "False"

\* C19: the cache is fail-open: a request during which the store failed on
\* the get or on the set still runs the pipeline and returns the freshly
\* computed result with success=true (its flags are what the probes of this
\* request found); a failed get is taken for a miss even when the entry is
\* there, and a failed set stores nothing
C19_CacheFailOpen ==
    (/\ pc = "Returned"
     /\ faults \cap CacheOps # {}
     /\ ~ValidationFails(domain, facebook_page, meta_page_id))
    => /\ source = "computed"
       /\ response.success
       /\ response.has_meta_ads = ("meta" \in signals)
       /\ response.has_google_ads = ("google" \in signals)
       /\ ("cache.set" \in faults /\ "cache.get" \notin faults)
             => ~CacheHit(ServiceCache, cache_key, now)

\* the store failed on the get while it held a live entry for the key, and
\* on the set as well; the request was computed afresh and succeeded
C19_Witness ==
    /\ pc = "Returned"
    /\ faults = { "cache.get", "cache.set" }
    /\ CacheHit(ServiceCache, cache_key, now)
    /\ source = "computed"
    /\ response.success
    /\ response.has_google_ads

\* the last probe of the Meta chain: the API probe with a token, else the
\* alternative search
LastMetaProbe == IF accessToken THEN MetaProbes[4] ELSE MetaProbes[3]

\* C20: the two chains run as exactly two tasks, the response is assembled
\* only after both are over, a missing identifier on one side does not keep
\* the other chain from running to its end, and the flags are what the probes
\* found, in whatever order the steps of the two tasks were taken
C20_TwoTasksJoined ==
    /\ pc = "Gathering" => metaPc # "off" /\ googlePc # "off"
    /\ pc # "Gathering" => metaPc = "off" /\ googlePc = "off"
    /\ (pc = "Returned" /\ source = "computed")
          => /\ response.has_meta_ads = ("meta" \in signals)
             /\ response.has_google_ads = ("google" \in signals)
             /\ Truthy(response.meta_page_id)
                   => "meta" \in signals \/ LastMetaProbe \in calls
             /\ Truthy(response.domain)
                   => "google" \in signals \/ GoogleProbes[Len(GoogleProbes)] \in calls
             /\ ~Truthy(response.meta_page_id) => ~response.has_meta_ads
             /\ ~Truthy(response.domain) => ~response.has_google_ads

\* the Google task is over with a positive answer while the Meta task is
\* still in the middle of its chain
C20_Witness ==
    /\ pc = "Gathering"
    /\ googlePc = "done"
    /\ googleResult
    /\ metaPc = "_check_ads_alternative_search"
    /\ Len(metaLog) = 2

\* C21: a domain that find_website_from_page returned is a bare host, with no
\* scheme, no leading www. and no path, and is none of the social or media
\* hosts facebook, instagram, twitter, linkedin, youtube, tiktok, snapchat,
\* pinterest
C21_WebsiteIsBareNonSocialHost ==
    (pc = "ExtractPageId" /\ domain # None)
    => /\ \A i \in 1..Len(domain) :
             domain[i] \notin { "http://", "https://", "/", "/about" }
       /\ domain # << >> => domain[1] # "www."
       /\ \A i \in 1..Len(domain) :
             domain[i] \notin { "facebook", "instagram", "twitter", "linkedin",
                                "youtube", "tiktok", "snapchat", "pinterest" }

\* C22: with no access token configured, page-id resolution makes no lookup
\* with a token and the Meta chain never runs the API probe, and a request
\* that went through the pipeline (its fields being strings or absent)
\* completes with success=true
C22_NoTokenNoAuthenticatedCall ==
    ~accessToken
    => /\ pc # "UsernameGraphToken"
       /\ \A i \in 1..Len(idLog) : idLog[i] # "graph_token"
       /\ metaPc # "_check_ads_via_api"
       /\ "_check_ads_via_api" \notin calls
       /\ \A i \in 1..Len(metaLog) : metaLog[i][1] # "_check_ads_via_api"
       /\ (pc = "Returned" /\ source \in { "computed", "error" }
           /\ ~ValidationFails(domain, facebook_page, meta_page_id))
             => response.success

\* without a token the page id was resolved, the three heuristic probes of
\* the Meta chain ran and found nothing, and the request succeeded
C22_Witness ==
    /\ ~accessToken
    /\ pc = "Returned"
    /\ source = "computed"
    /\ response.success
    /\ response.meta_page_id = ValidId
    /\ "_check_ads_alternative_search" \in calls
    /\ ~response.has_meta_ads

\* the phase a request is in: 0 none, 1 Validating, 2 CacheCheck, 3 Resolving,
\* 4 Detecting, 5 Done (Assembling is the step from 4 to 5)
PhaseOf(p) ==
    CASE p = "idle" -> 0
      [] p = "Validating" -> 1
      [] p = "CacheCheck" -> 2
      [] p \in { "ResolveFacebook", "ResolveDomain", "ExtractPageId", "GraphLookup",
                 "ScrapePage", "MetaClientPageId", "UsernameGraphToken",
                 "UsernameScrape" } -> 3
      [] p \in { "Detecting", "Gathering" } -> 4
      [] p = "Returned" -> 5

\* C23: a request goes through Validating, CacheCheck, Resolving, Detecting,
\* Assembling, Done in this order and never back; it leaves early only from
\* Validating on invalid input and from CacheCheck on a hit; no resolver is
\* called before the cache was asked, no detection step is taken while a
\* resolution step is pending, and the cache is written only in the step that
\* ends the detection, when both chains are over
C23_PhasesInOrder ==
    [][ /\ \/ PhaseOf(pc') = PhaseOf(pc)
           \/ PhaseOf(pc') = PhaseOf(pc) + 1
           \/ PhaseOf(pc) = 5 /\ PhaseOf(pc') = 0
           \/ PhaseOf(pc) = 1 /\ PhaseOf(pc') = 5 /\ source' = "invalid"
           \/ PhaseOf(pc) = 2 /\ PhaseOf(pc') = 5 /\ source' = "cache"
        /\ (PhaseOf(pc) = 4 /\ PhaseOf(pc') = 5) => metaPc = "done" /\ googlePc = "done"
        /\ PhaseOf(pc') <= 2 => calls' \cap (ResolverOps \cup DetectionOps) = {}
        /\ PhaseOf(pc') <= 3
              => /\ calls' \cap DetectionOps = {}
                 /\ metaPc' = "off" /\ googlePc' = "off"
        /\ "cache.set" \in calls' => PhaseOf(pc') = 5 /\ source' = "computed"
        /\ ("cache.set" \in calls' /\ "cache.set" \notin calls) => PhaseOf(pc) = 4
        /\ (PhaseOf(pc') = 5 /\ source' \in { "computed", "error" })
              => "cache.get" \in calls'
      ]_vars

\* a request went through every phase: the cache was asked, a resolver was
\* called, both chains ran a probe, and the result was written to the cache
C23_Witness ==
    /\ pc = "Returned"
    /\ source = "computed"
    /\ { "cache.get", "cache.set", "facebook_resolver.find_website_from_page",
         "_check_ads_direct", "_check_website_signals" } \subseteq calls


\* C24: an entry check_ads wrote with set(key, value, ttl=3600) is returned by
\* the lookup of a later request for the same input while less than 3600
\* seconds have passed since the write, and is no longer returned afterwards,
\* whatever ttl the cache was configured with.
C24_TtlArgumentGovernsExpiry ==
    LET written == /\ last.seen
                   /\ last.source = "computed"
                   /\ last.rawDomain = rawDomain
                   /\ last.rawPage = rawPage
    IN  /\ (written /\ pc = "Returned" /\ source = "cache")
              => now < last.at + OrchestratorTtl
        /\ (written /\ pc = "ResolveFacebook")
              => ~(now < last.at + OrchestratorTtl)


\* C25: for concurrent check_ads calls on one cache, whatever the order of
\* their writes, the cache holds at most one entry per key, and that entry
\* is, in the stored text and as get parses it, exactly the value of the
\* latest write to the key; while that write has not expired, get returns it.
C25_LastWriteWins ==
    \A k \in ConcKeys :
        lastWrite[k].written =>
            /\ \A e \in Live(cache, now) :
                  e.key = k => /\ e.value = JsonDumps(lastWrite[k].value)
                               /\ JsonLoads(e.value) = lastWrite[k].value
            /\ Cardinality({ e \in Live(cache, now) : e.key = k }) <= 1
            /\ (now < lastWrite[k].at + cacheTtl) =>
                  /\ CacheGetOutcome(cache, k, now, FALSE) = "hit"
                  /\ JsonLoads(CacheValue(cache, k, now)) = lastWrite[k].value

\* two calls missed on the same key, and the later write replaced the
\* unexpired entry of the earlier one, which held another value
C25_Witness ==
    \E k \in ConcKeys :
        /\ lastWrite[k].written
        /\ lastWrite[k].from # 0
        /\ lastWrite[k].from # lastWrite[k].by
        /\ lastWrite[k].over # lastWrite[k].value
        /\ CacheHit(cache, k, now)
        /\ JsonLoads(CacheValue(cache, k, now)) = lastWrite[k].value


\* the names logged in a chain's log, in order
LoggedNames(log) == [ i \in 1..Len(log) |-> log[i][1] ]

NoRepeat(seq) == \A i, j \in 1..Len(seq) : seq[i] = seq[j] => i = j

\* the lookups of page-id resolution, each of its own function: the resolver's
\* directory lookup and HTML fetch, then the client's directory lookup without
\* and with the token and its HTML fetch
IdLookups == << "graph", "html", "graph", "graph_token", "html" >>

\* seq is IdLookups with some of its lookups left out
RECURSIVE IsSubsequence(_, _)
IsSubsequence(seq, of) ==
    IF seq = << >> THEN TRUE
    ELSE IF of = << >> THEN FALSE
    ELSE IF Head(seq) = Head(of) THEN IsSubsequence(Tail(seq), Tail(of))
    ELSE IsSubsequence(seq, Tail(of))

\* C26: every check_ads call that has been entered returns a response, given
\* that each awaited call returns or raises; on the way no probe of a
\* detection chain is entered twice, a chain enters no more probes than it
\* has, and page-id resolution makes its lookups in their one order, each at
\* most once.
C26_EveryCallReturns ==
    /\ [](/\ NoRepeat(LoggedNames(metaLog))
          /\ NoRepeat(LoggedNames(googleLog))
          /\ IsSubsequence(idLog, IdLookups)
          /\ Len(metaLog) <= Len(MetaProbes)
          /\ Len(googleLog) <= Len(GoogleProbes))
    /\ (pc = "Validating") ~> (pc = "Returned")

\* a request has gone through every probe of both chains, each finding
\* nothing, and has returned
C26_Witness ==
    /\ pc = "Returned"
    /\ source = "computed"
    /\ last.seen
    /\ "_check_transparency_center" \in calls
    /\ "_check_ads_via_api" \in calls
    /\ ~response.has_meta_ads
    /\ ~response.has_google_ads


\* the methods a domain_to_facebook call has invoked
InvokedMethods == { m[1] : m \in probe.met }

\* C27: each resolver chain goes through its strategies in one order and
\* stops at the first that yields a result.  domain_to_facebook has invoked
\* a leading run of its methods, and a method that found a page is the last
\* one invoked and ends the call; page-id resolution makes its lookups in
\* their one order, and a later step of extract_page_id, or the fallback to
\* the Meta client, is entered only while no id has been found.
C27_FirstResultStopsTheChain ==
    /\ (probe.name = "domain_to_facebook") =>
          /\ \E k \in 0..Len(DomainMethods) :
                InvokedMethods = { DomainMethods[i] : i \in 1..k }
          /\ \A m \in probe.met :
                m[2] = "found" =>
                    /\ probe.ret = "found"
                    /\ m[1] = DomainMethods[Cardinality(InvokedMethods)]
          /\ (probe.ret = "found") => \E m \in probe.met : m[2] = "found"
    /\ IsSubsequence(idLog, IdLookups)
    /\ (pc \in { "GraphLookup", "ScrapePage", "MetaClientPageId", "UsernameGraphToken",
                 "UsernameScrape" }) => ~Truthy(meta_page_id)
    /\ (Truthy(meta_page_id) /\ "meta_client.get_page_id" \notin calls) =>
          pc = "Detecting"

\* domain_to_facebook found the page with its search, after the site's HTML
\* had none, and page-id resolution has stopped at the directory's answer
C27_Witness ==
    /\ probe.name = "domain_to_facebook"
    /\ probe.ret = "found"
    /\ InvokedMethods = { DomainMethods[i] : i \in 1..3 }
    /\ pc = "Detecting"
    /\ idLog = << "graph" >>
    /\ Truthy(meta_page_id)
    /\ "meta_client.get_page_id" \notin calls


\* the fetch the probe made over a protocol
FetchOver(protocol) == { m[2] : m \in { x \in probe.met : x[1] = protocol } }

\* a fetch that answered 200 with a page that holds an indicator
HasHit(o) == ~o.raised /\ o.status = 200 /\ FoundSignals(o.content) # {}

\* two indicator hits or more, or a hit on a conversion indicator
Asserts(o) ==
    \/ Cardinality(FoundSignals(o.content)) >= 2
    \/ \E s \in FoundSignals(o.content) :
          s[2] \in { "google_conversion_id", "google_conversion_label" }

\* C28: the website-signal probe fetches over https, and over http only when
\* the https fetch raised, answered another status than 200 or held no
\* indicator; the first fetch that answers 200 with an indicator hit ends the
\* probe, with True when it holds two hits or more or a hit on a conversion
\* indicator and with False otherwise; with no such fetch the probe returns
\* False after both protocols.
C28_MinimumIndicatorCount ==
    (probe.name = "_check_website_signals:fetch") =>
        LET decided == { m \in probe.met : HasHit(m[2]) }
        IN  /\ FetchOver("http") # {} =>
                  /\ FetchOver("https") # {}
                  /\ \A o \in FetchOver("https") : ~HasHit(o)
            /\ Cardinality(decided) <= 1
            /\ (probe.ret = "running") => decided = {} /\ FetchOver("http") = {}
            /\ (probe.ret = "True") =>
                  \E m \in decided : Asserts(m[2])
            /\ (probe.ret = "False") =>
                  \/ \E m \in decided : ~Asserts(m[2])
                  \/ decided = {} /\ FetchOver("https") # {} /\ FetchOver("http") # {}
            /\ (decided # {}) => probe.ret \in { "True", "False" }

\* the https page held one indicator, no conversion one: the probe returned
\* False and did not fetch over http
C28_Witness ==
    /\ probe.name = "_check_website_signals:fetch"
    /\ probe.ret = "False"
    /\ FetchOver("http") = {}
    /\ \E o \in FetchOver("https") :
          HasHit(o) /\ Cardinality(FoundSignals(o.content)) = 1


\* C29: every entry of a cache holds a result with success=true, in the stored
\* text as well; a response that rejects the input or reports an error has
\* success=false and was returned without a cache write; a response served
\* from the cache is a success; and on one instance, the request that follows
\* a failed one with the same input is not served from the cache.
C29_OnlySuccessIsCached ==
    /\ \A e \in cache \cup reqCache :
          e.stored.success /\ JsonLoads(e.value).success
    /\ (pc = "Returned" /\ source \in { "invalid", "error" }) =>
          /\ ~response.success
          /\ "cache.set" \notin calls
          /\ \A e \in ServiceCache : e.key = cache_key => e.expires <= now
    /\ (pc = "Returned" /\ source = "cache") => response.success
    /\ (/\ pc = "Returned"
        /\ via = "direct"
        /\ last.seen
        /\ ~last.response.success
        /\ last.rawDomain = rawDomain
        /\ last.rawPage = rawPage) => source # "cache"

\* on one instance a request ended in an error response; the next request,
\* with the same input, went through resolution and detection again and was
\* then written to the cache
C29_Witness ==
    /\ pc = "Returned"
    /\ via = "direct"
    /\ last.seen
    /\ last.source = "error"
    /\ last.rawDomain = rawDomain
    /\ last.rawPage = rawPage
    /\ source = "computed"
    /\ "facebook_resolver.extract_page_id" \in calls
    /\ \E e \in cache : e.key = cache_key /\ e.stored = response


\* C30: a successful response carries the identifiers the request supplied:
\* its domain is the trimmed domain of the request when the request had one,
\* and its facebook_page is the trimmed page of the request when it had one.
C30_SuppliedIdentifiersKept ==
    (pc = "Returned" /\ response.success) =>
        /\ Truthy(TrimInput(rawDomain)) => response.domain = TrimInput(rawDomain)
        /\ Truthy(TrimInput(rawPage)) => response.facebook_page = TrimInput(rawPage)

====
